---- MODULE Spec2Model ----
(***************************************************************************)
(* State-machine model of the psyche-lab core (backend/core):              *)
(*   brain_manager.py   - Brain, BrainManager      (population of units)   *)
(*   memory_system.py   - MemoryEntry, MemorySystem (tiered memory)        *)
(*   learning_engine.py - Theory, LearningEngine   (hypotheses)            *)
(*   main_brain.py      - MainBrain                (orchestrator)          *)
(*                                                                         *)
(* Python floats are modelled as exact rationals <<n, d>> in lowest terms  *)
(* (d > 0).  Python dicts are modelled as sequences in insertion order,    *)
(* which is the order a dict iterates in.  uuid4 ids are fresh integers.   *)
(***************************************************************************)
EXTENDS Integers, Sequences, FiniteSets, TLC

VARIABLES
    brains,             \* BrainManager.brains (dict id -> Brain, insertion order)
    nextId,             \* the next fresh id (stands for uuid.uuid4())
    nUpdates,           \* number of Brain.update_strength calls made so far
    nAnalyses,          \* number of analyze_with_all_brains calls made so far
    short_term_memory,  \* MemorySystem.short_term_memory
    working_memory,     \* MemorySystem.working_memory
    clock,              \* datetime.utcnow(), in half days since construction
    theories,           \* LearningEngine.theories
    prediction_history, \* len(LearningEngine.prediction_history); only its length is ever read
    reasoning_log,      \* MainBrain.reasoning_log
    threads,            \* the requests in flight: each one's call, position and locals
    last                \* the last call made: its name, arguments and outcome

vars == <<brains, nextId, nUpdates, nAnalyses, short_term_memory, working_memory, clock,
          theories, prediction_history, reasoning_log, threads, last>>

brainVars == <<brains, nUpdates, nAnalyses>>
memVars == <<short_term_memory, working_memory, clock>>
engineVars == <<theories, prediction_history>>

-----------------------------------------------------------------------------
(* Bounds of the model *)

MaxIds == 4
MaxUpdates == 3
MaxAnalyses == 1
MaxMemIds == 13
MaxAccess == 2
MaxClock == 16
MaxTheories == 3
MaxTests == 12
MaxDirectTests == 4
MaxPredictions == 1
MaxRequests == 2
MaxPersistIds == 6
MaxTierIds == 14
MaxEvolveTheories == 5
MaxEvolveTests == 26
MaxLoaded == 6
MaxSignalTests == 3

-----------------------------------------------------------------------------
(* Rational arithmetic standing for Python float arithmetic *)

Abs(x) == IF x < 0 THEN -x ELSE x

RECURSIVE GCD(_, _)
GCD(a, b) == IF b = 0 THEN a ELSE GCD(b, a % b)

\* n/d in lowest terms, d > 0
Rat(n, d) ==
    LET s == IF d < 0 THEN -1 ELSE 1
        g == GCD(Abs(n), Abs(d))
    IN  <<(s * n) \div g, (s * d) \div g>>

RInt(k) == <<k, 1>>
RAdd(a, b) == Rat(a[1] * b[2] + b[1] * a[2], a[2] * b[2])
RSub(a, b) == Rat(a[1] * b[2] - b[1] * a[2], a[2] * b[2])
RMul(a, b) == Rat(a[1] * b[1], a[2] * b[2])
RDiv(a, b) == Rat(a[1] * b[2], a[2] * b[1])
RLt(a, b) == a[1] * b[2] < b[1] * a[2]
RLe(a, b) == a[1] * b[2] <= b[1] * a[2]
RMin(a, b) == IF RLe(a, b) THEN a ELSE b
RAbs(a) == <<Abs(a[1]), a[2]>>
InUnit(a) == RLe(RInt(0), a) /\ RLe(a, RInt(1))

RECURSIVE RSum(_)
RSum(s) == IF s = <<>> THEN RInt(0) ELSE RAdd(Head(s), RSum(Tail(s)))

\* Python's sum(...) / len(...)
RMean(s) == RDiv(RSum(s), RInt(Len(s)))

-----------------------------------------------------------------------------
(* Sequence helpers (dict and list operations) *)

Ids(s) == {s[i].id : i \in 1..Len(s)}
IdSeq(s) == [i \in 1..Len(s) |-> s[i].id]
Range(s) == {s[i] : i \in 1..Len(s)}

\* del d[id]: the dict without the key, order of the others kept
DelKey(d, id) == SelectSeq(d, LAMBDA e : e.id # id)

\* d[id] for a key that is present
Get(d, id) == CHOOSE e \in Range(d) : e.id = id

\* list[:k]
Take(s, k) == IF k <= 0 THEN <<>> ELSE SubSeq(s, 1, IF k < Len(s) THEN k ELSE Len(s))

\* list[-k:]
TakeLast(s, k) == IF Len(s) <= k THEN s ELSE SubSeq(s, Len(s) - k + 1, Len(s))

\* all sequences over S with a length in Lens
SeqsOf(S, Lens) == UNION {[1..k -> S] : k \in Lens}

\* A call and its outcome: the operation, its argument, whether it raised to
\* its caller, what it returned and the persistence calls it issued
Call(op, arg, raised, out, db) ==
    [op |-> op, arg |-> arg, raised |-> raised, out |-> out, db |-> db]

NoCall == Call("none", <<>>, FALSE, <<>>, <<>>)

-----------------------------------------------------------------------------
(* brain_manager.py *)

\* Brain.__init__
Brain(brain_id, role) ==
    [id |-> brain_id, role |-> role, strength |-> <<1, 2>>, active |-> TRUE,
     analysis_count |-> 0]

\* Brain.update_strength with the decay 0.9 in place of 0.8
update_strength_decay09(brain, feedback) ==
    [brain EXCEPT !.strength =
        RAdd(RMul(<<9, 10>>, brain.strength), RMul(<<1, 5>>, feedback))]

\* Brain.update_strength: self.strength = 0.8 * self.strength + 0.2 * feedback
update_strength(brain, feedback) ==
    [brain EXCEPT !.strength =
        RAdd(RMul(<<4, 5>>, brain.strength), RMul(<<1, 5>>, feedback))]

\* Brain.analyze: counts the analysis, reports the strength as confidence
analyze(brain) ==
    [brain |-> [brain EXCEPT !.analysis_count = @ + 1],
     analysis |-> [brain_id |-> brain.id, role |-> brain.role,
                   confidence |-> brain.strength]]

DbCall(call, table, id) == [call |-> call, table |-> table, id |-> id]

\* the calls of a sequence at the positions outside a set
Except(calls, positions) ==
    LET keep == SelectSeq([i \in 1..Len(calls) |-> i], LAMBDA i : i \notin positions)
    IN  [k \in 1..Len(keep) |-> calls[keep[k]]]

\* the persistence calls with no except clause around them: the first call
\* that fails raises out of the operation
persist_unhandled(calls, failing) ==
    LET bad == {i \in 1..Len(calls) : i \in failing}
        first == IF bad = {} THEN Len(calls) + 1
                 ELSE CHOOSE i \in bad : \A j \in bad : i <= j
    IN  [written |-> SubSeq(calls, 1, first - 1), printed |-> 0, raised |-> bad # {}]

\* try: self.db.table(...)...execute() / except Exception as e: print(...),
\* for the persistence calls an operation issues: the calls at the positions
\* in failing raise inside the try, the handler prints and the operation
\* goes on; the other calls are written
Persist(calls, failing) ==
    [written |-> Except(calls, failing),
     printed |-> Cardinality({i \in 1..Len(calls) : i \in failing}),
     raised |-> FALSE]

\* BrainManager.create_brain: the new brain is put in the dict, then inserted
\* in the database (a failure of the insert is caught and printed)
create_brain(bs, brain_id, role) ==
    [brains |-> Append(bs, Brain(brain_id, role)),
     db |-> <<DbCall("insert", "brains", brain_id)>>]

\* BrainManager.terminate_brain without the membership test: brains[id] raises
terminate_brain_unguarded(bs, brain_id) ==
    IF brain_id \in Ids(bs)
    THEN [brains |-> DelKey(bs, brain_id), raised |-> FALSE,
          db |-> <<DbCall("update", "brains", brain_id)>>]
    ELSE [brains |-> bs, raised |-> TRUE, db |-> <<>>]

\* BrainManager.terminate_brain without the final del: the brain stays in the
\* dict with active = False
terminate_brain_keep_entry(bs, brain_id) ==
    IF brain_id \in Ids(bs)
    THEN [brains |-> [i \in 1..Len(bs) |->
                        IF bs[i].id = brain_id THEN [bs[i] EXCEPT !.active = FALSE]
                        ELSE bs[i]],
          raised |-> FALSE,
          db |-> <<DbCall("update", "brains", brain_id)>>]
    ELSE [brains |-> bs, raised |-> FALSE, db |-> <<>>]

\* BrainManager.terminate_brain
terminate_brain(bs, brain_id) ==
    IF brain_id \in Ids(bs)
    THEN [brains |-> DelKey(bs, brain_id), raised |-> FALSE,
          db |-> <<DbCall("update", "brains", brain_id)>>]
    ELSE [brains |-> bs, raised |-> FALSE, db |-> <<>>]

RECURSIVE TerminateEach(_, _, _)
\* for bid in brain_ids: if bid in self.brains: self.terminate_brain(bid, ...)
TerminateEach(bs, brain_ids, db) ==
    IF brain_ids = <<>> THEN [brains |-> bs, db |-> db]
    ELSE IF Head(brain_ids) \in Ids(bs)
         THEN LET t == terminate_brain(bs, Head(brain_ids))
              IN  TerminateEach(t.brains, Tail(brain_ids), db \o t.db)
         ELSE TerminateEach(bs, Tail(brain_ids), db)

\* sum(self.brains[bid].strength for bid in brain_ids if bid in self.brains)
\*   / len(brain_ids)
MergedStrength(bs, brain_ids) ==
    LET present == SelectSeq(brain_ids, LAMBDA bid : bid \in Ids(bs))
        strengths == [i \in 1..Len(present) |-> Get(bs, present[i]).strength]
    IN  RDiv(RSum(strengths), RInt(Len(brain_ids)))

\* BrainManager.merge_brains without the loop that terminates the old brains
merge_brains_keep_sources(bs, brain_ids, new_id, new_role) ==
    IF Len(brain_ids) < 2
    THEN [brains |-> bs, raised |-> TRUE, db |-> <<>>, merged |-> <<>>]
    ELSE LET c == create_brain(bs, new_id, new_role)
             strength == RMin(RInt(1), RMul(MergedStrength(bs, brain_ids), <<6, 5>>))
         IN  [brains |-> [c.brains EXCEPT ![Len(c.brains)].strength = strength],
              raised |-> FALSE, db |-> c.db,
              merged |-> <<[c.brains[Len(c.brains)] EXCEPT !.strength = strength]>>]

\* BrainManager.merge_brains; merged is <<the returned brain>>, <<>> on ValueError
merge_brains(bs, brain_ids, new_id, new_role) ==
    IF Len(brain_ids) < 2
    THEN [brains |-> bs, raised |-> TRUE, db |-> <<>>, merged |-> <<>>]
    ELSE LET merged_strength == MergedStrength(bs, brain_ids)
             c == create_brain(bs, new_id, new_role)
             strength == RMin(RInt(1), RMul(merged_strength, <<6, 5>>))
             created == [c.brains EXCEPT ![Len(c.brains)].strength = strength]
             t == TerminateEach(created, brain_ids, c.db)
         IN  [brains |-> t.brains, raised |-> FALSE, db |-> t.db,
              merged |-> <<created[Len(created)]>>]

\* BrainManager.get_active_brains
get_active_brains(bs) == SelectSeq(bs, LAMBDA b : b.active)

RECURSIVE AnalyzeEach(_, _, _)
\* the loop of analyze_with_all_brains over the active brains; failing is the
\* set of brain ids whose analyze raises (after counting the analysis);
\* done collects the ids of the brains whose analyze was called
AnalyzeEach(active, failing, acc) ==
    IF active = <<>> THEN acc
    ELSE LET a == analyze(Head(active))
             next == [done |-> acc.done \cup {Head(active).id},
                      analyses |-> IF Head(active).id \in failing
                                   THEN acc.analyses
                                   ELSE Append(acc.analyses, a.analysis)]
         IN  AnalyzeEach(Tail(active), failing, next)

Analyzed(bs, r) ==
    [brains |-> [i \in 1..Len(bs) |->
                    IF bs[i].id \in r.done THEN analyze(bs[i]).brain ELSE bs[i]],
     analyses |-> r.analyses]

\* analyze_with_all_brains where the first failure ends the loop
analyze_abort_on_failure(bs, failing) ==
    LET active == get_active_brains(bs)
        firstBad == SelectSeq([i \in 1..Len(active) |-> i],
                              LAMBDA i : active[i].id \in failing)
        upTo == IF firstBad = <<>> THEN Len(active) ELSE Head(firstBad)
    IN  Analyzed(bs, AnalyzeEach(SubSeq(active, 1, upTo), failing,
                                 [done |-> {}, analyses |-> <<>>]))

\* BrainManager.analyze_with_all_brains
analyze_with_all_brains(bs, failing) ==
    Analyzed(bs, AnalyzeEach(get_active_brains(bs), failing,
                             [done |-> {}, analyses |-> <<>>]))

EvalMinCount == 10
LowStrength == <<1, 5>>

RECURSIVE EvaluateEach(_, _, _)
\* the loop of evaluate_brain_performance over list(self.brains.values())
EvaluateEach(snapshot, bs, db) ==
    IF snapshot = <<>> THEN [brains |-> bs, db |-> db]
    ELSE LET brain == Head(snapshot)
         IN  IF brain.analysis_count > EvalMinCount /\ RLt(brain.strength, LowStrength)
             THEN LET t == terminate_brain(bs, brain.id)
                  IN  EvaluateEach(Tail(snapshot), t.brains, db \o t.db)
             ELSE EvaluateEach(Tail(snapshot), bs, db)

\* BrainManager.evaluate_brain_performance with >= in place of > in the test
\* of analysis_count
evaluate_from_ten_analyses(bs) ==
    LET low == SelectSeq(bs, LAMBDA b :
                    b.analysis_count >= EvalMinCount /\ RLt(b.strength, LowStrength))
    IN  [brains |-> SelectSeq(bs, LAMBDA b : b.id \notin Ids(low)),
         db |-> [i \in 1..Len(low) |-> DbCall("update", "brains", low[i].id)]]

\* BrainManager.evaluate_brain_performance
evaluate_brain_performance(bs) == EvaluateEach(bs, bs, <<>>)

-----------------------------------------------------------------------------
(* memory_system.py *)

\* MemoryEntry.__init__; sources stands for content['source_memories'] or
\* content['source_patterns'], the only part of the content the store reads
MemoryEntry(entry_id, memory_type, abstraction_level, now) ==
    [id |-> entry_id, memory_type |-> memory_type,
     abstraction_level |-> abstraction_level, created_at |-> now,
     access_count |-> 0, importance |-> <<1, 2>>, sources |-> <<>>]

\* MemoryEntry.access
access(memory) == [memory EXCEPT !.access_count = @ + 1]

\* abstraction_thresholds['raw_to_pattern']
raw_to_pattern == 5

\* the level-1 count that triggers _abstract_to_belief
patterns_to_belief == 5

RECURSIVE SortByCreated(_)
\* sorted(entries, key=lambda m: m.created_at): a stable sort
SortByCreated(s) ==
    IF s = <<>> THEN <<>>
    ELSE LET front == SortByCreated(SubSeq(s, 1, Len(s) - 1))
             e == s[Len(s)]
             keep == SelectSeq(front, LAMBDA x : x.created_at <= e.created_at)
             after == SelectSeq(front, LAMBDA x : x.created_at > e.created_at)
         IN  keep \o <<e>> \o after

\* MemorySystem._abstract_to_pattern taking one raw memory fewer than the threshold
abstract_to_pattern_short(m, now) ==
    LET raw_memories == Take(SortByCreated(m.st), raw_to_pattern - 1)
        pattern == [MemoryEntry(m.next, "pattern", 1, now) EXCEPT
                        !.importance = <<7, 10>>,
                        !.sources = IdSeq(raw_memories)]
    IN  [st |-> SelectSeq(m.st, LAMBDA e : e.id \notin Ids(raw_memories)),
         wm |-> Append(m.wm, pattern),
         next |-> m.next + 1,
         db |-> Append(m.db, DbCall("insert", "memories", m.next))]

\* MemorySystem._abstract_to_pattern: the oldest raw memories become the
\* sources of a new pattern in working memory; each source has its
\* importance halved and is deleted from short-term memory
abstract_to_pattern(m, now) ==
    LET raw_memories == Take(SortByCreated(m.st), raw_to_pattern)
        pattern == [MemoryEntry(m.next, "pattern", 1, now) EXCEPT
                        !.importance = <<7, 10>>,
                        !.sources = IdSeq(raw_memories)]
    IN  [st |-> SelectSeq(m.st, LAMBDA e : e.id \notin Ids(raw_memories)),
         wm |-> Append(m.wm, pattern),
         next |-> m.next + 1,
         db |-> Append(m.db, DbCall("insert", "memories", m.next))]

\* MemorySystem._abstract_to_belief that makes no belief while working
\* memory holds one
abstract_to_belief_once(m, now) ==
    LET patterns == SelectSeq(m.wm, LAMBDA e : e.abstraction_level = 1)
        belief == [MemoryEntry(m.next, "belief", 2, now) EXCEPT
                        !.importance = <<17, 20>>,
                        !.sources = IdSeq(Take(patterns, 5))]
    IN  IF Len(patterns) >= 5 /\ \A e \in Range(m.wm) : e.abstraction_level # 2
        THEN [st |-> m.st,
              wm |-> Append(m.wm, belief),
              next |-> m.next + 1,
              db |-> Append(m.db, DbCall("insert", "memories", m.next))]
        ELSE m

\* MemorySystem._abstract_to_belief taking its five source patterns out of
\* working memory
abstract_to_belief_consuming(m, now) ==
    LET patterns == SelectSeq(m.wm, LAMBDA e : e.abstraction_level = 1)
        belief == [MemoryEntry(m.next, "belief", 2, now) EXCEPT
                        !.importance = <<17, 20>>,
                        !.sources = IdSeq(Take(patterns, 5))]
    IN  IF Len(patterns) >= 5
        THEN [st |-> m.st,
              wm |-> Append(SelectSeq(m.wm, LAMBDA e : e.id \notin Ids(Take(patterns, 5))),
                            belief),
              next |-> m.next + 1,
              db |-> Append(m.db, DbCall("insert", "memories", m.next))]
        ELSE m

\* MemorySystem._abstract_to_belief
abstract_to_belief(m, now) ==
    LET patterns == SelectSeq(m.wm, LAMBDA e : e.abstraction_level = 1)
        belief == [MemoryEntry(m.next, "belief", 2, now) EXCEPT
                        !.importance = <<17, 20>>,
                        !.sources = IdSeq(Take(patterns, 5))]
    IN  IF Len(patterns) >= 5
        THEN [st |-> m.st,
              wm |-> Append(m.wm, belief),
              next |-> m.next + 1,
              db |-> Append(m.db, DbCall("insert", "memories", m.next))]
        ELSE m

\* MemorySystem._check_abstraction_opportunities making a pattern only once
\* short-term memory holds more than the threshold (> in place of >=)
check_abstraction_above_threshold(m, now) ==
    LET m1 == IF Len(m.st) > raw_to_pattern THEN abstract_to_pattern(m, now) ELSE m
    IN  IF Len(SelectSeq(m1.wm, LAMBDA e : e.abstraction_level = 1)) >= patterns_to_belief
        THEN abstract_to_belief(m1, now)
        ELSE m1

\* MemorySystem._check_abstraction_opportunities
check_abstraction_opportunities(m, now) ==
    LET m1 == IF Len(m.st) >= raw_to_pattern THEN abstract_to_pattern(m, now) ELSE m
    IN  IF Len(SelectSeq(m1.wm, LAMBDA e : e.abstraction_level = 1)) >= patterns_to_belief
        THEN abstract_to_belief(m1, now)
        ELSE m1

\* MemorySystem.store_raw_memory putting the new entry into working memory
store_raw_into_working(m, memory_type, now) ==
    LET entry == MemoryEntry(m.next, memory_type, 0, now)
    IN  [st |-> m.st, wm |-> Append(m.wm, entry), next |-> m.next + 1,
         db |-> Append(m.db, DbCall("insert", "memories", m.next)),
         entry |-> entry]

\* MemorySystem.store_raw_memory on the store m = [st, wm, next, db]; entry
\* is the MemoryEntry returned
store_raw_memory(m, memory_type, now) ==
    LET entry == MemoryEntry(m.next, memory_type, 0, now)
        m1 == [st |-> Append(m.st, entry), wm |-> m.wm, next |-> m.next + 1,
               db |-> Append(m.db, DbCall("insert", "memories", m.next))]
        m2 == check_abstraction_opportunities(m1, now)
    IN  [st |-> m2.st, wm |-> m2.wm, next |-> m2.next, db |-> m2.db,
         entry |-> entry]

RECURSIVE RetrieveWorking(_, _, _, _)
\* the loop of retrieve_memories over working memory: access, append, and
\* break once len(relevant) >= limit
RetrieveWorking(wm, i, limit, relevant) ==
    IF i > Len(wm) THEN relevant
    ELSE LET r == Append(relevant, access(wm[i]))
         IN  IF Len(r) >= limit THEN r
             ELSE RetrieveWorking(wm, i + 1, limit, r)

\* MemorySystem.retrieve_memories without the calls of memory.access()
retrieve_without_access(st, wm, limit) ==
    LET fromWm == IF limit <= 0 THEN Take(wm, 1) ELSE Take(wm, limit)
        fromSt == IF Len(fromWm) < limit THEN Take(st, limit - Len(fromWm)) ELSE <<>>
    IN  [st |-> st, wm |-> wm, relevant |-> fromWm \o fromSt]

\* MemorySystem.retrieve_memories
retrieve_memories(st, wm, limit) ==
    LET fromWm == RetrieveWorking(wm, 1, limit, <<>>)
        stTaken == IF Len(fromWm) < limit THEN Take(st, limit - Len(fromWm)) ELSE <<>>
        fromSt == [i \in 1..Len(stTaken) |-> access(stTaken[i])]
    IN  [st |-> [i \in 1..Len(st) |-> IF i <= Len(fromSt) THEN fromSt[i] ELSE st[i]],
         wm |-> [i \in 1..Len(wm) |-> IF i <= Len(fromWm) THEN fromWm[i] ELSE wm[i]],
         relevant |-> fromWm \o fromSt]

\* (datetime.utcnow() - memory.created_at).days, the clock counting half days
days_old(memory, now) == (now - memory.created_at) \div 2

\* the test of consolidate_memories on an entry
Forgettable(memory, now) ==
    /\ days_old(memory, now) > 7
    /\ RLt(memory.importance, <<3, 10>>)
    /\ memory.access_count < 2

\* consolidate_memories that forgets on age and importance alone
consolidate_ignoring_access(st, now) ==
    LET keep == SelectSeq(st, LAMBDA e :
                    ~(days_old(e, now) > 7 /\ RLt(e.importance, <<3, 10>>)))
    IN  [st |-> keep, removed |-> Len(st) - Len(keep)]

\* MemorySystem.consolidate_memories
consolidate_memories(st, now) ==
    LET to_remove == SelectSeq(st, LAMBDA e : Forgettable(e, now))
    IN  [st |-> SelectSeq(st, LAMBDA e : e.id \notin Ids(to_remove)),
         removed |-> Len(to_remove)]

-----------------------------------------------------------------------------
(* learning_engine.py *)

\* Theory.__init__; the hypothesis text is kept as the sequence of its parts
Theory(theory_id, hypothesis, category) ==
    [id |-> theory_id, hypothesis |-> hypothesis, category |-> category,
     strength |-> <<1, 2>>, evidence_for |-> <<0, 1>>, evidence_against |-> <<0, 1>>,
     tests_performed |-> 0]

\* Theory.test that leaves the strength as it was
test_no_recompute(theory, outcome, weight) ==
    [theory EXCEPT
        !.tests_performed = @ + 1,
        !.evidence_for = IF outcome THEN RAdd(@, weight) ELSE @,
        !.evidence_against = IF outcome THEN @ ELSE RAdd(@, weight)]

\* Theory.test
test(theory, outcome, weight) ==
    LET evidence_for == IF outcome THEN RAdd(theory.evidence_for, weight)
                        ELSE theory.evidence_for
        evidence_against == IF outcome THEN theory.evidence_against
                            ELSE RAdd(theory.evidence_against, weight)
        total_evidence == RAdd(evidence_for, evidence_against)
    IN  [theory EXCEPT
            !.tests_performed = @ + 1,
            !.evidence_for = evidence_for,
            !.evidence_against = evidence_against,
            !.strength = IF RLt(RInt(0), total_evidence)
                         THEN RDiv(evidence_for, total_evidence)
                         ELSE @]

\* Theory.merge_with giving the merged theory the strength of the first parent
merge_with_first_strength(self, other_theory, merged_id) ==
    [Theory(merged_id, self.hypothesis \o <<"AND">> \o other_theory.hypothesis,
            self.category) EXCEPT
        !.strength = self.strength,
        !.evidence_for = RAdd(self.evidence_for, other_theory.evidence_for),
        !.evidence_against = RAdd(self.evidence_against, other_theory.evidence_against),
        !.tests_performed = self.tests_performed + other_theory.tests_performed]

\* Theory.merge_with
merge_with(self, other_theory, merged_id) ==
    [Theory(merged_id, self.hypothesis \o <<"AND">> \o other_theory.hypothesis,
            self.category) EXCEPT
        !.strength = RDiv(RAdd(self.strength, other_theory.strength), RInt(2)),
        !.evidence_for = RAdd(self.evidence_for, other_theory.evidence_for),
        !.evidence_against = RAdd(self.evidence_against, other_theory.evidence_against),
        !.tests_performed = self.tests_performed + other_theory.tests_performed]

\* LearningEngine.generate_theory_from_pattern on the engine e = [ts, next, db]
generate_theory_from_pattern(e, pattern) ==
    [ts |-> Append(e.ts, Theory(e.next, <<pattern.pattern_type, pattern.context>>,
                                pattern.category)),
     next |-> e.next + 1,
     db |-> Append(e.db, DbCall("insert", "theories", e.next))]

\* the tests_performed a theory must exceed to be pruned
PruneMinTests == 20

\* the tests_performed a theory must exceed to be merged
MergeMinTests == 10

\* LearningEngine._evolve_theories pruning from 20 tests on (>= in place of >)
evolve_pruning_at_twenty(e) ==
    LET kept == SelectSeq(e.ts, LAMBDA t :
                    ~(t.tests_performed >= PruneMinTests /\ RLt(t.strength, <<1, 5>>)))
        strong_theories == SelectSeq(kept, LAMBDA t :
                        RLt(<<7, 10>>, t.strength) /\ t.tests_performed > MergeMinTests)
    IN  IF Len(strong_theories) >= 2
        THEN [ts |-> Append(kept, merge_with(strong_theories[1], strong_theories[2],
                                             e.next)),
              next |-> e.next + 1,
              db |-> Append(e.db, DbCall("insert", "theories", e.next))]
        ELSE [ts |-> kept, next |-> e.next, db |-> e.db]

\* LearningEngine._evolve_theories
evolve_theories(e) ==
    LET to_remove == SelectSeq(e.ts, LAMBDA t :
                        t.tests_performed > PruneMinTests /\ RLt(t.strength, <<1, 5>>))
        kept == SelectSeq(e.ts, LAMBDA t : t.id \notin Ids(to_remove))
        db1 == e.db \o [i \in 1..Len(to_remove) |->
                            DbCall("update", "theories", to_remove[i].id)]
        strong_theories == SelectSeq(kept, LAMBDA t :
                        RLt(<<7, 10>>, t.strength) /\ t.tests_performed > MergeMinTests)
    IN  IF Len(strong_theories) >= 2
        THEN [ts |-> Append(kept, merge_with(strong_theories[1], strong_theories[2],
                                             e.next)),
              next |-> e.next + 1,
              db |-> Append(db1, DbCall("insert", "theories", e.next))]
        ELSE [ts |-> kept, next |-> e.next, db |-> db1]

\* one pass of the loop of test_theories_against_interaction; actual[id] is
\* what _evaluate_theory_fit returns for the theory (random.random() > 0.5)
TestOne(theory, actual) ==
    LET predicted_outcome == RLt(<<1, 2>>, theory.strength)
        tested == test(theory, actual = predicted_outcome, <<1, 1>>)
    IN  [theory |-> tested,
         result |-> [theory_id |-> theory.id, predicted |-> predicted_outcome,
                     actual |-> actual, match |-> (actual = predicted_outcome),
                     new_strength |-> tested.strength]]

\* LearningEngine.test_theories_against_interaction
test_theories_against_interaction(e, actual) ==
    LET tested == [i \in 1..Len(e.ts) |-> TestOne(e.ts[i], actual[e.ts[i].id])]
        ev == evolve_theories([ts |-> [i \in 1..Len(e.ts) |-> tested[i].theory],
                               next |-> e.next, db |-> e.db])
    IN  [ts |-> ev.ts, next |-> ev.next, db |-> ev.db,
         results |-> [i \in 1..Len(e.ts) |-> tested[i].result]]

\* LearningEngine.predict_user_response: the prediction made
predict_user_response(ts) ==
    LET relevant_theories == SelectSeq(ts, LAMBDA t : RLt(<<3, 5>>, t.strength))
        top == Take(relevant_theories, 5)
    IN  [confidence |-> IF relevant_theories # <<>>
                        THEN RMean([i \in 1..Len(relevant_theories) |->
                                        relevant_theories[i].strength])
                        ELSE <<1, 2>>,
         reasoning |-> [i \in 1..Len(top) |->
                            [theory |-> top[i].id, strength |-> top[i].strength]]]

\* the signals read by learn_from_implicit_signals, a missing key replaced
\* by the default of signals.get
Signals(engagement, response_time_seconds, topic_switched) ==
    [engagement |-> engagement, response_time_seconds |-> response_time_seconds,
     topic_switched |-> topic_switched]

\* LearningEngine.learn_from_implicit_signals generating the new theory
\* before the loop that tests the engagement theories
learn_spawning_first(e, signals) ==
    LET outcome == RLt(<<3, 5>>, signals.engagement)
        e1 == IF signals.topic_switched /\ signals.response_time_seconds < 2
              THEN generate_theory_from_pattern(e,
                      [pattern_type |-> "disengage_quickly", context |-> "certain topics",
                       category |-> "engagement"])
              ELSE e
    IN  [ts |-> [i \in 1..Len(e1.ts) |->
                    IF e1.ts[i].category = "engagement"
                    THEN test(e1.ts[i], outcome, <<1, 2>>)
                    ELSE e1.ts[i]],
         next |-> e1.next, db |-> e1.db]

\* LearningEngine.learn_from_implicit_signals
learn_from_implicit_signals(e, signals) ==
    LET outcome == RLt(<<3, 5>>, signals.engagement)
        tested == [i \in 1..Len(e.ts) |->
                      IF e.ts[i].category = "engagement"
                      THEN test(e.ts[i], outcome, <<1, 2>>)
                      ELSE e.ts[i]]
        e1 == [ts |-> tested, next |-> e.next, db |-> e.db]
    IN  IF signals.topic_switched /\ signals.response_time_seconds < 2
        THEN generate_theory_from_pattern(e1,
                [pattern_type |-> "disengage_quickly", context |-> "certain topics",
                 category |-> "engagement"])
        ELSE e1

-----------------------------------------------------------------------------
(* main_brain.py *)

\* MainBrain._perform_meta_reasoning with the confidence of the first finding
\* in place of the mean
meta_reasoning_first_only(brain_analyses) ==
    [confidence |-> IF brain_analyses = <<>> THEN <<3, 10>>
                    ELSE brain_analyses[1].confidence,
     dominant_signal |-> <<>>,
     conflicts |-> <<>>]

\* MainBrain._perform_meta_reasoning
perform_meta_reasoning(brain_analyses) ==
    IF brain_analyses = <<>>
    THEN [confidence |-> <<3, 10>>, dominant_signal |-> <<>>, conflicts |-> <<>>]
    ELSE LET n == Len(brain_analyses)
             total_confidence == RSum([i \in 1..n |-> brain_analyses[i].confidence])
             \* max(...) returns the first finding of maximal confidence
             dom == CHOOSE i \in 1..n :
                        /\ \A j \in 1..n : RLe(brain_analyses[j].confidence,
                                               brain_analyses[i].confidence)
                        /\ \A j \in 1..(i - 1) : RLt(brain_analyses[j].confidence,
                                                     brain_analyses[i].confidence)
             high_conf_brains == SelectSeq(brain_analyses,
                                    LAMBDA b : RLt(<<7, 10>>, b.confidence))
         IN  [confidence |-> RDiv(total_confidence, RInt(n)),
              dominant_signal |-> <<[brain |-> brain_analyses[dom].role,
                                     confidence |-> brain_analyses[dom].confidence]>>,
              conflicts |-> IF Len(high_conf_brains) > 1
                            THEN <<[type |-> "multiple_high_confidence",
                                    brains |-> [i \in 1..Len(high_conf_brains) |->
                                                   high_conf_brains[i].role]]>>
                            ELSE <<>>]

\* the number of reasoning entries kept
LogCapacity == 100

\* MainBrain._log_reasoning
log_reasoning(log, user_input, brain_analyses, meta_analysis, response_text) ==
    LET reasoning_entry == [user_input |-> user_input,
                            brain_count |-> Len(brain_analyses),
                            meta_confidence |-> meta_analysis.confidence,
                            response |-> response_text]
        appended == Append(log, reasoning_entry)
    IN  IF Len(appended) > LogCapacity THEN TakeLast(appended, LogCapacity)
        ELSE appended

\* the signals of phase 7 as the engine reads them, were the dict to carry
\* the processing time as response time and a topic switch
implicit_signals_read(processing_time, confidence) ==
    Signals(<<1, 2>>, processing_time, TRUE)

\* the signals process_user_input hands to _extract_implicit_signals, as
\* learn_from_implicit_signals reads them: the dict holds 'processing_time'
\* and 'confidence' only, so each signals.get returns its default
implicit_signals(processing_time, confidence) ==
    Signals(<<1, 2>>, 5, FALSE)

\* MainBrain.process_user_input on the system state sys.  failing is the set
\* of brains whose analyze raises, actual the fit _evaluate_theory_fit finds
\* for each theory, response_fails whether model_interface.generate_response
\* raises (nothing in process_user_input catches it).  The result holds the
\* state afterwards, the context _generate_response hands to the model
\* interface and, unless raised, the value returned.
process_user_input(sys, user_message, failing, actual, response_fails) ==
    LET stored == store_raw_memory([st |-> sys.st, wm |-> sys.wm, next |-> sys.next,
                                    db |-> <<>>], "user_input", sys.now)
        analyzed == analyze_with_all_brains(sys.brains, failing)
        brain_analyses == analyzed.analyses
        meta_analysis == perform_meta_reasoning(brain_analyses)
        retrieved == retrieve_memories(stored.st, stored.wm, 5)
        tested == test_theories_against_interaction(
                      [ts |-> sys.ts, next |-> stored.next, db |-> stored.db], actual)
        prediction == predict_user_response(tested.ts)
        \* the request takes less than a second
        learned == learn_from_implicit_signals(tested,
                       implicit_signals(0, meta_analysis.confidence))
        context_for_model ==
            [system_confidence |-> meta_analysis.confidence,
             relevant_memories |-> Take(retrieved.relevant, 3),
             active_theories |-> Take(SelectSeq(tested.results,
                                    LAMBDA t : RLt(<<3, 5>>, t.new_strength)), 3),
             prediction |-> prediction]
        common == [brains |-> analyzed.brains, st |-> retrieved.st, wm |-> retrieved.wm,
                   predictions |-> sys.predictions + 1,
                   brain_analyses |-> brain_analyses, meta_analysis |-> meta_analysis,
                   relevant_memories |-> retrieved.relevant,
                   theory_tests |-> tested.results, prediction |-> prediction,
                   context_for_model |-> context_for_model]
    IN  IF response_fails
        THEN [state |-> common, raised |-> TRUE,
              ts |-> tested.ts, next |-> tested.next, db |-> tested.db,
              log |-> sys.log, returned |-> <<>>]
        ELSE [state |-> common, raised |-> FALSE,
              ts |-> learned.ts, next |-> learned.next, db |-> learned.db,
              log |-> log_reasoning(sys.log, user_message, brain_analyses,
                                    meta_analysis, "text"),
              returned |-> <<[response |-> "text",
                              confidence |-> meta_analysis.confidence]>>]

-----------------------------------------------------------------------------
(* Construction *)

brain_roles ==
    <<"emotion_analyzer", "pattern_detector", "topic_tracker",
      "prediction_engine", "meta_analyzer">>

\* BrainManager._initialize_brains with no active row in the database (or a
\* failing database): one brain per role, strength 0.5
DefaultBrains == [i \in 1..Len(brain_roles) |-> Brain(i, brain_roles[i])]

\* BrainManager._initialize_brains with active rows in the database: the
\* strength of each brain is taken from its row
LoadedBrains(strengths) ==
    {[i \in 1..Len(st) |-> [Brain(i, brain_roles[i]) EXCEPT !.strength = st[i]]] :
        st \in strengths}

InitBrainManager(bs) ==
    /\ brains = bs
    /\ nextId = Len(bs) + 1
    /\ nUpdates = 0
    /\ nAnalyses = 0

\* MemorySystem.__init__ with no recent row in the database
InitMemoryEmpty ==
    /\ short_term_memory = <<>>
    /\ working_memory = <<>>
    /\ clock = 0

\* LearningEngine.__init__ with no active row in the database
InitEngineEmpty ==
    /\ theories = <<>>
    /\ prediction_history = 0

\* MainBrain.__init__
InitMainBrain ==
    /\ reasoning_log = <<>>
    /\ threads = <<>>
    /\ last = NoCall

-----------------------------------------------------------------------------
(* The population manager on its own *)

\* strengths in the rows of the brains table
LoadedStrengthsB == {<<(<<2, 5>>), (<<3, 5>>), (<<1, 1>>)>>}

InitB ==
    /\ \E bs \in LoadedBrains(LoadedStrengthsB) : InitBrainManager(bs)
    /\ InitMemoryEmpty
    /\ InitEngineEmpty
    /\ InitMainBrain

\* feedback values given to update_strength (2 is outside [0,1])
Feedbacks == {<<0, 1>>, <<1, 1>>, <<2, 1>>}

\* an id that was never allocated
UnknownId == 0

\* lengths of the id lists given to merge_brains
MergeLens == 0..3

otherVarsB == <<memVars, engineVars, reasoning_log, threads>>

CreateBrain ==
    /\ nextId <= MaxIds
    /\ LET c == create_brain(brains, nextId, "custom")
       IN  /\ brains' = c.brains
           /\ last' = Call("create_brain", <<>>, FALSE, <<nextId>>, c.db)
    /\ nextId' = nextId + 1
    /\ UNCHANGED <<nUpdates, nAnalyses, otherVarsB>>

TerminateBrain ==
    \E id \in 0..(nextId - 1) :
        LET t == terminate_brain(brains, id)
        IN  /\ brains' = t.brains
            /\ last' = Call("terminate_brain", id, t.raised, <<>>, t.db)
            /\ UNCHANGED <<nextId, nUpdates, nAnalyses, otherVarsB>>

MergeBrains ==
    \E brain_ids \in SeqsOf(Ids(brains) \cup {UnknownId}, MergeLens) :
        /\ nextId <= MaxIds
        /\ LET m == merge_brains(brains, brain_ids, nextId, "merged")
           IN  /\ brains' = m.brains
               /\ nextId' = IF m.raised THEN nextId ELSE nextId + 1
               /\ last' = Call("merge_brains", brain_ids, m.raised, m.merged, m.db)
        /\ UNCHANGED <<nUpdates, nAnalyses, otherVarsB>>

UpdateStrength ==
    \E i \in 1..Len(brains), feedback \in Feedbacks :
        /\ nUpdates < MaxUpdates
        /\ brains' = [brains EXCEPT ![i] = update_strength(@, feedback)]
        /\ nUpdates' = nUpdates + 1
        /\ last' = Call("update_strength", <<brains[i].id, feedback>>, FALSE, <<>>, <<>>)
        /\ UNCHANGED <<nextId, nAnalyses, otherVarsB>>

AnalyzeAll ==
    \E failing \in SUBSET Ids(brains) :
        /\ nAnalyses < MaxAnalyses
        /\ LET a == analyze_with_all_brains(brains, failing)
           IN  /\ brains' = a.brains
               /\ last' = Call("analyze_with_all_brains", failing, FALSE,
                               a.analyses, <<>>)
        /\ nAnalyses' = nAnalyses + 1
        /\ UNCHANGED <<nextId, nUpdates, otherVarsB>>

Evaluate ==
    LET e == evaluate_brain_performance(brains)
    IN  /\ brains' = e.brains
        /\ last' = Call("evaluate_brain_performance", <<>>, FALSE, <<>>, e.db)
        /\ UNCHANGED <<nextId, nUpdates, nAnalyses, otherVarsB>>

NextB ==
    \/ CreateBrain
    \/ TerminateBrain
    \/ MergeBrains
    \/ AnalyzeAll
    \/ Evaluate

\* the lifecycle of the population: create, terminate, merge, analyze, evaluate
SpecBrains == InitB /\ [][NextB]_vars

\* strengths in the rows of the brains table
LoadedStrengthsS ==
    {<<(<<0, 1>>), (<<1, 2>>), (<<1, 1>>)>>, <<(<<2, 5>>), (<<3, 5>>), (<<1, 4>>)>>}

InitS ==
    /\ \E bs \in LoadedBrains(LoadedStrengthsS) : InitBrainManager(bs)
    /\ InitMemoryEmpty
    /\ InitEngineEmpty
    /\ InitMainBrain

NextS == UpdateStrength

\* the strength of the units under feedback
SpecStrength == InitS /\ [][NextS]_vars

-----------------------------------------------------------------------------
(* Claims about the population manager *)

IsDistinct(s) == \A i, j \in 1..Len(s) : i # j => s[i] # s[j]

\* C1: when a unit's strength and the feedback are both in [0,1], the
\* strength after update_strength is in [0,1] again and its distance to the
\* feedback f is 0.8 times what it was (strength' = 0.8*strength + 0.2*f),
\* so under a repeated f it converges toward f.
C1_StrengthEMA ==
    [][\A i \in 1..Len(brains) :
          ( /\ last'.op = "update_strength"
            /\ last'.arg[1] = brains[i].id
            /\ InUnit(last'.arg[2])
            /\ InUnit(brains[i].strength) )
          => /\ InUnit(brains'[i].strength)
             /\ RAbs(RSub(brains'[i].strength, last'.arg[2]))
                  = RMul(<<4, 5>>, RAbs(RSub(brains[i].strength, last'.arg[2])))
             /\ brains'[i].strength
                  = RAdd(RMul(<<4, 5>>, brains[i].strength),
                         RMul(<<1, 5>>, last'.arg[2]))]_vars

\* a third update with an in-range feedback has moved a strength that was
\* not at the feedback value
C1_Witness ==
    /\ last.op = "update_strength"
    /\ nUpdates = 3
    /\ InUnit(last.arg[2])
    /\ \A i \in 1..Len(brains) : InUnit(brains[i].strength)
    /\ \E i \in 1..Len(brains) :
          /\ brains[i].id = last.arg[1]
          /\ brains[i].strength # last.arg[2]
          /\ brains[i].strength[2] > 100

\* C15: unit strength, memory importance and theory strength are in [0,1]
\* in every reachable state, also after an update_strength whose feedback is
\* outside [0,1] and after a merge (out-of-range values are clamped).
C15_ValuesInUnit ==
    /\ \A b \in Range(brains) : InUnit(b.strength)
    /\ \A e \in Range(short_term_memory) \cup Range(working_memory) : InUnit(e.importance)
    /\ \A t \in Range(theories) : InUnit(t.strength)

\* C2: merge_brains on k >= 2 distinct ids that are all live returns a new
\* unit with strength min(1, 1.2 * mean of the source strengths); the new
\* unit is live afterwards and none of the sources is.
C2_MergeResult ==
    [][( /\ last'.op = "merge_brains"
         /\ Len(last'.arg) >= 2
         /\ IsDistinct(last'.arg)
         /\ \A k \in 1..Len(last'.arg) : last'.arg[k] \in Ids(brains) )
       => /\ ~last'.raised
          /\ Len(last'.out) = 1
          /\ last'.out[1].strength =
                RMin(RInt(1),
                     RMul(<<6, 5>>,
                          RMean([k \in 1..Len(last'.arg) |->
                                    Get(brains, last'.arg[k]).strength])))
          /\ last'.out[1].id \notin Ids(brains)
          /\ last'.out[1] \in Range(brains')
          /\ \A k \in 1..Len(last'.arg) : last'.arg[k] \notin Ids(brains')]_vars

\* units 1 and 2, of strengths 0.4 and 0.6, were merged into one of 0.6
C2_Witness ==
    /\ last.op = "merge_brains"
    /\ last.arg = <<1, 2>>
    /\ ~last.raised
    /\ last.out[1].strength = <<3, 5>>
    /\ last.out[1] \in Range(brains)
    /\ Ids(brains) \cap {1, 2} = {}

\* C7: analyze_with_all_brains over N active units of which exactly one
\* fails returns N-1 findings, one per non-failing unit in iteration order,
\* raises nothing, and every unit (also those after the failing one) has
\* been analyzed.
C7_PartialFailure ==
    [][( /\ last'.op = "analyze_with_all_brains"
         /\ Cardinality(last'.arg) = 1 )
       => /\ ~last'.raised
          /\ Len(last'.out) = Len(brains) - 1
          /\ [k \in 1..Len(last'.out) |-> last'.out[k].brain_id]
                = IdSeq(SelectSeq(brains, LAMBDA b : b.id \notin last'.arg))
          /\ \A k \in 1..Len(last'.out) :
                last'.out[k].confidence = Get(brains, last'.out[k].brain_id).strength
          /\ Len(brains') = Len(brains)
          /\ \A i \in 1..Len(brains) :
                brains'[i].analysis_count = brains[i].analysis_count + 1]_vars

\* the first of three units failed and the two after it were analyzed
C7_Witness ==
    /\ last.op = "analyze_with_all_brains"
    /\ Len(brains) = 3
    /\ last.arg = {brains[1].id}
    /\ Len(last.out) = 2
    /\ last.out[1].brain_id = brains[2].id
    /\ last.out[2].brain_id = brains[3].id
    /\ brains[3].analysis_count = 1

\* C8: terminate_brain on an id that is not in the live set raises nothing,
\* leaves the live set and every unit unchanged and issues no persistence
\* call (so a second terminate of the same id is a no-op).
C8_TerminateIdempotent ==
    [][( /\ last'.op = "terminate_brain"
         /\ last'.arg \notin Ids(brains) )
       => /\ ~last'.raised
          /\ brains' = brains
          /\ last'.db = <<>>]_vars

\* an id that was allocated and terminated before is terminated again
C8_Witness ==
    /\ last.op = "terminate_brain"
    /\ last.arg \in 1..3
    /\ last.arg \notin Ids(brains)
    /\ last.db = <<>>
    /\ ~last.raised

\* the ids of a list that are ids of live units
ValidIds(brain_ids, bs) == {brain_ids[k] : k \in 1..Len(brain_ids)} \cap Ids(bs)

\* C11: merge_brains given fewer than 2 valid ids (distinct ids of live
\* units), also in a list of length >= 2 padded with unknown or repeated
\* ids, fails with the validation error; no unit is created, none is
\* terminated and the live set is unchanged.
C11_MergeNeedsTwoValid ==
    [][( /\ last'.op = "merge_brains"
         /\ Cardinality(ValidIds(last'.arg, brains)) < 2 )
       => /\ last'.raised
          /\ last'.out = <<>>
          /\ brains' = brains
          /\ nextId' = nextId]_vars

\* C12: the lifecycle of a unit is one-way.  An id that was given out and
\* is no longer in the live set is not in the live set after any step, ids
\* entering the live set are new, every unit of the live set has active
\* true, and analyze_with_all_brains analyzes and reports live units only.
C12_NoResurrection ==
    [][ /\ \A id \in 0..(nextId - 1) : id \notin Ids(brains) => id \notin Ids(brains')
        /\ \A id \in Ids(brains') : id \notin Ids(brains) => id >= nextId /\ id < nextId'
        /\ IsDistinct(IdSeq(brains'))
        /\ \A b \in Range(brains') : b.active
        /\ last'.op = "analyze_with_all_brains"
              => /\ \A k \in 1..Len(last'.out) : last'.out[k].brain_id \in Ids(brains)
                 /\ Ids(brains') = Ids(brains) ]_vars

\* with unit 1 terminated and units 2 and 3 merged into unit 4, the one live
\* unit is analyzed and units 1, 2 and 3 are not
C12_Witness ==
    /\ last.op = "analyze_with_all_brains"
    /\ Ids(brains) = {4}
    /\ nextId = 5
    /\ Len(last.out) = 1
    /\ last.out[1].brain_id = 4

-----------------------------------------------------------------------------
(* The population manager over brains that have a history *)

\* analysis_count and strength in the rows of the brains table: on, below
\* and above the thresholds of evaluate_brain_performance
LoadedCounts == {10, 11, 100, 101}
LoadedStrengthsV == {<<1, 10>>, <<1, 5>>, <<9, 10>>, <<19, 20>>}

\* BrainManager._initialize_brains over two active rows
InitV ==
    /\ \E c1 \in LoadedCounts, c2 \in LoadedCounts,
          s1 \in LoadedStrengthsV, s2 \in LoadedStrengthsV :
            brains = <<[Brain(1, brain_roles[1]) EXCEPT
                            !.analysis_count = c1, !.strength = s1],
                       [Brain(2, brain_roles[2]) EXCEPT
                            !.analysis_count = c2, !.strength = s2]>>
    /\ nextId = 3
    /\ nUpdates = 0
    /\ nAnalyses = 0
    /\ InitMemoryEmpty
    /\ InitEngineEmpty
    /\ InitMainBrain

NextV ==
    \/ AnalyzeAll
    \/ Evaluate

\* evaluation of brains loaded with their counts and strengths
SpecEvaluate == InitV /\ [][NextV]_vars

\* C22: evaluate_brain_performance removes exactly the brains with
\* analysis_count > 10 and strength < 0.2; every other brain, also one with
\* analysis_count > 100 and strength > 0.9 and one on a boundary, stays as
\* it is, and no brain is created
C22_EvaluateExact ==
    [][last'.op = "evaluate_brain_performance"
       => /\ \A b \in Range(brains) :
                IF b.analysis_count > 10 /\ RLt(b.strength, <<1, 5>>)
                THEN b.id \notin Ids(brains')
                ELSE b \in Range(brains')
          /\ Ids(brains') \subseteq Ids(brains)
          /\ IsDistinct(IdSeq(brains'))
          /\ nextId' = nextId]_vars

\* an evaluation that has terminated one brain and kept the other, which is
\* on a boundary: weak with exactly 10 analyses, or of strength 0.2 with 11
C22_Witness ==
    /\ last.op = "evaluate_brain_performance"
    /\ Len(last.db) = 1
    /\ Len(brains) = 1
    /\ \/ brains[1].analysis_count = 10 /\ RLt(brains[1].strength, <<1, 5>>)
       \/ brains[1].analysis_count = 11 /\ brains[1].strength = <<1, 5>>

-----------------------------------------------------------------------------
(* The memory store on its own *)

InitM ==
    /\ InitBrainManager(<<>>)
    /\ InitMemoryEmpty
    /\ InitEngineEmpty
    /\ InitMainBrain

\* the importance and access_count of the level-0 rows of the memories table
LoadedRows == <<[importance |-> <<1, 4>>, access_count |-> 0],
                [importance |-> <<1, 2>>, access_count |-> 0],
                [importance |-> <<1, 4>>, access_count |-> 1]>>

\* MemorySystem._load_recent_memories: the entries are created at load time,
\* importance and access_count come from the rows
LoadedShortTerm ==
    [i \in 1..Len(LoadedRows) |->
        [MemoryEntry(i, "interaction", 0, 0) EXCEPT
            !.importance = LoadedRows[i].importance,
            !.access_count = LoadedRows[i].access_count]]

InitML ==
    /\ brains = <<>>
    /\ nextId = Len(LoadedShortTerm) + 1
    /\ nUpdates = 0
    /\ nAnalyses = 0
    /\ short_term_memory = LoadedShortTerm
    /\ working_memory = <<>>
    /\ clock = 0
    /\ InitEngineEmpty
    /\ InitMainBrain

otherVarsM == <<brainVars, engineVars, reasoning_log, threads>>

\* limits given to retrieve_memories
Limits == {0, 1, 2, 5}

\* time that passes between two calls, in half days
TickSteps == {7, 8}

StoreRaw ==
    /\ nextId + 2 <= MaxMemIds
    /\ LET m == store_raw_memory([st |-> short_term_memory, wm |-> working_memory,
                                  next |-> nextId, db |-> <<>>],
                                 "interaction", clock)
       IN  /\ short_term_memory' = m.st
           /\ working_memory' = m.wm
           /\ nextId' = m.next
           /\ last' = Call("store_raw_memory", <<>>, FALSE, <<m.entry>>, m.db)
    /\ UNCHANGED <<clock, otherVarsM>>

Retrieve ==
    \E limit \in Limits :
        /\ \A e \in Range(short_term_memory) \cup Range(working_memory) :
              e.access_count < MaxAccess
        /\ LET r == retrieve_memories(short_term_memory, working_memory, limit)
           IN  /\ short_term_memory' = r.st
               /\ working_memory' = r.wm
               /\ last' = Call("retrieve_memories", limit, FALSE, r.relevant, <<>>)
        /\ UNCHANGED <<nextId, clock, otherVarsM>>

Consolidate ==
    LET c == consolidate_memories(short_term_memory, clock)
    IN  /\ short_term_memory' = c.st
        /\ last' = Call("consolidate_memories", <<>>, FALSE, c.removed, <<>>)
        /\ UNCHANGED <<working_memory, nextId, clock, otherVarsM>>

Tick ==
    \E d \in TickSteps :
        /\ clock + d <= MaxClock
        /\ clock' = clock + d
        /\ last' = Call("tick", d, FALSE, <<>>, <<>>)
        /\ UNCHANGED <<short_term_memory, working_memory, nextId, otherVarsM>>

NextM ==
    \/ StoreRaw
    \/ Retrieve
    \/ Consolidate
    \/ Tick

\* the memory store from an empty database
SpecMemory == InitM /\ [][NextM]_vars

\* the memory store from a database that holds recent rows
SpecMemoryLoaded == InitML /\ [][NextM]_vars

\* the number of level-1 rows among the recent rows of the memories table
LoadedPatternCounts == {4, 5}

\* MemorySystem._load_recent_memories over rows of level 0 and n rows of
\* level 1: a row of level 0 goes to short-term memory, any other to
\* working memory
LoadedWorking(n) ==
    [i \in 1..n |->
        [MemoryEntry(Len(LoadedShortTerm) + i, "pattern", 1, 0) EXCEPT
            !.importance = <<7, 10>>]]

InitMT ==
    /\ brains = <<>>
    /\ nUpdates = 0
    /\ nAnalyses = 0
    /\ short_term_memory = LoadedShortTerm
    /\ \E n \in LoadedPatternCounts :
          /\ working_memory = LoadedWorking(n)
          /\ nextId = Len(LoadedShortTerm) + n + 1
    /\ clock = 0
    /\ InitEngineEmpty
    /\ InitMainBrain

\* store_raw_memory, at most three ids taken by one call
StoreRawT ==
    /\ nextId + 2 <= MaxTierIds
    /\ \E m \in {store_raw_memory([st |-> short_term_memory, wm |-> working_memory,
                                   next |-> nextId, db |-> <<>>],
                                  "interaction", clock)} :
           /\ short_term_memory' = m.st
           /\ working_memory' = m.wm
           /\ nextId' = m.next
           /\ last' = Call("store_raw_memory", <<>>, FALSE, <<m.entry>>, m.db)
    /\ UNCHANGED <<clock, otherVarsM>>

NextMT ==
    \/ StoreRawT
    \/ Retrieve
    \/ Consolidate
    \/ Tick

\* the memory store from a database that holds raw rows and pattern rows
SpecMemoryTiers == InitMT /\ [][NextMT]_vars

-----------------------------------------------------------------------------
(* Claims about the memory store *)

\* the level-1 entries that a step adds to working memory
NewPatterns ==
    SelectSeq(working_memory',
              LAMBDA e : e.abstraction_level = 1 /\ e.id \notin Ids(working_memory))

\* C4: from an empty store the first four store_raw_memory calls create no
\* pattern, and the fifth creates exactly one level-1 pattern in working
\* memory whose source_memories are the ids of those five raw entries and
\* whose importance is 0.7.  (While working memory is empty every id given
\* out so far is a raw entry of short-term memory, so the number of calls
\* made is the size of short-term memory.)
C4_FifthStorePromotes ==
    [][( /\ last'.op = "store_raw_memory"
         /\ working_memory = <<>> )
       => /\ Len(short_term_memory) = nextId - 1
          /\ Len(short_term_memory) < raw_to_pattern
          /\ Len(short_term_memory) < raw_to_pattern - 1 => working_memory' = <<>>
          /\ Len(short_term_memory) = raw_to_pattern - 1 =>
                /\ Len(working_memory') = 1
                /\ working_memory'[1].abstraction_level = 1
                /\ working_memory'[1].memory_type = "pattern"
                /\ working_memory'[1].importance = <<7, 10>>
                /\ working_memory'[1].sources
                      = Append(IdSeq(short_term_memory), last'.out[1].id)
                /\ Len(working_memory'[1].sources) = 5]_vars

\* the fifth call has made the one pattern out of the entries 1..5
C4_Witness ==
    /\ last.op = "store_raw_memory"
    /\ last.out[1].id = 5
    /\ Len(working_memory) = 1
    /\ working_memory[1].sources = <<1, 2, 3, 4, 5>>
    /\ working_memory[1].importance = <<7, 10>>
    /\ working_memory[1].abstraction_level = 1

\* C5: a promotion does not remove its sources: after it each source raw
\* entry is still in short-term memory, with its importance halved.
C5_SourcesRemain ==
    [][last'.op = "store_raw_memory"
       => \A p \in Range(NewPatterns) :
             \A k \in 1..Len(p.sources) :
                /\ p.sources[k] \in Ids(short_term_memory')
                /\ Get(short_term_memory', p.sources[k]).importance
                     = RMul(<<1, 2>>,
                            (IF p.sources[k] \in Ids(short_term_memory)
                             THEN Get(short_term_memory, p.sources[k])
                             ELSE last'.out[1]).importance)]_vars

\* what consolidate_memories has to leave of a short-term tier, for a given
\* test of what is forgotten
Kept(st, Forget(_)) == SelectSeq(st, LAMBDA e : ~Forget(e))

\* C6 as stated: consolidate_memories removes exactly the short-term entries
\* with age > 7 days, importance < 0.3 and access_count < 2, changes nothing
\* in working memory, and returns the number removed.
C6_ConsolidateExactAge ==
    [][last'.op = "consolidate_memories"
       => /\ short_term_memory'
               = Kept(short_term_memory,
                      LAMBDA e : /\ clock - e.created_at > 2 * 7
                                 /\ RLt(e.importance, <<3, 10>>)
                                 /\ e.access_count < 2)
          /\ working_memory' = working_memory
          /\ last'.out = Len(short_term_memory) - Len(short_term_memory')]_vars

\* C6 as amended: the age condition is on whole days, (now - created_at).days
\* > 7, which is an age of at least 8 days; an entry between 7 and 8 days old
\* stays.
C6_ConsolidateWholeDays ==
    [][last'.op = "consolidate_memories"
       => /\ short_term_memory'
               = Kept(short_term_memory,
                      LAMBDA e : /\ (clock - e.created_at) \div 2 >= 8
                                 /\ RLt(e.importance, <<3, 10>>)
                                 /\ e.access_count < 2)
          /\ working_memory' = working_memory
          /\ last'.out = Len(short_term_memory) - Len(short_term_memory')]_vars

\* at 8 days one entry was removed; an old entry of low importance with two
\* accesses and an old, rarely accessed entry of importance 0.5 both stay
C6_Witness ==
    /\ last.op = "consolidate_memories"
    /\ last.out = 1
    /\ clock = 16
    /\ \E e \in Range(short_term_memory) :
          /\ e.created_at = 0
          /\ RLt(e.importance, <<3, 10>>)
          /\ e.access_count >= 2
    /\ \E e \in Range(short_term_memory) :
          /\ e.created_at = 0
          /\ e.importance = <<1, 2>>
          /\ e.access_count < 2

\* C17: for every limit >= 0 (0 included) retrieve_memories returns at most
\* limit entries, no entry twice, and a short-term entry only when every
\* working-memory entry is returned too.
C17_RetrieveAtMostLimit ==
    [][last'.op = "retrieve_memories"
       => /\ Len(last'.out) <= last'.arg
          /\ IsDistinct(IdSeq(last'.out))
          /\ (\E k \in 1..Len(last'.out) : last'.out[k].id \in Ids(short_term_memory))
                => Ids(working_memory) \subseteq Ids(last'.out)]_vars

\* the entry e after a retrieve_memories step that returned the ids in
\* returned: one more access if it was returned, else as it was
AfterRetrieve(e, returned) ==
    IF e.id \in returned THEN [e EXCEPT !.access_count = @ + 1] ELSE e

\* C23: retrieve_memories counts one access on each entry it returns and
\* leaves every other entry as it was; no entry enters or leaves a tier
\* and no importance changes
C23_RetrieveCountsAccess ==
    [][last'.op = "retrieve_memories"
       => /\ Len(short_term_memory') = Len(short_term_memory)
          /\ Len(working_memory') = Len(working_memory)
          /\ \A k \in 1..Len(short_term_memory) :
                short_term_memory'[k]
                    = AfterRetrieve(short_term_memory[k], Ids(last'.out))
          /\ \A k \in 1..Len(working_memory) :
                working_memory'[k] = AfterRetrieve(working_memory[k], Ids(last'.out))
          /\ \A k \in 1..Len(last'.out) :
                \E e \in Range(short_term_memory) \cup Range(working_memory) :
                    last'.out[k] = [e EXCEPT !.access_count = @ + 1]]_vars

\* a retrieval with limit 2 that returned the pattern and one raw entry and
\* left another raw entry unread
C23_Witness ==
    /\ last.op = "retrieve_memories"
    /\ last.arg = 2
    /\ Len(last.out) = 2
    /\ last.out[1].abstraction_level = 1
    /\ last.out[1].access_count = 1
    /\ last.out[2].abstraction_level = 0
    /\ \E e \in Range(short_term_memory) :
          e.id \notin Ids(last.out) /\ e.access_count = 0

\* short-term memory holds level 0 only, working memory levels 1 to 3, and
\* no id is in both
TiersApart ==
    /\ \A e \in Range(short_term_memory) : e.abstraction_level = 0
    /\ \A e \in Range(working_memory) : e.abstraction_level \in 1..3
    /\ Ids(short_term_memory) \cap Ids(working_memory) = {}
    /\ IsDistinct(IdSeq(short_term_memory) \o IdSeq(working_memory))

\* an entry that is in the store before and after a step has kept its level
LevelKept ==
    \A e \in Range(short_term_memory) \cup Range(working_memory) :
        \A f \in Range(short_term_memory') \cup Range(working_memory') :
            f.id = e.id => f.abstraction_level = e.abstraction_level

\* C24: in every state reached by store_raw_memory, retrieve_memories and
\* consolidate_memories the short-term tier holds only level-0 entries, the
\* working-memory tier only entries of level 1 to 3, no id is in both
\* tiers, and no entry's abstraction level ever changes
C24_TiersByLevel == []TiersApart /\ [][LevelKept]_vars

\* a store with raw entries beside loaded patterns, a pattern made by a
\* promotion and a belief
C24_Witness ==
    /\ short_term_memory # <<>>
    /\ \E e \in Range(working_memory) : e.abstraction_level = 1 /\ e.sources # <<>>
    /\ \E e \in Range(working_memory) : e.abstraction_level = 1 /\ e.sources = <<>>
    /\ \E e \in Range(working_memory) : e.abstraction_level = 2
    /\ \E e \in Range(working_memory) : e.access_count > 0

\* the level-1 entries of a working memory
Level1(wm) == SelectSeq(wm, LAMBDA e : e.abstraction_level = 1)

\* the level-2 entries that a step adds to working memory
NewBeliefs ==
    SelectSeq(working_memory',
              LAMBDA e : e.abstraction_level = 2 /\ e.id \notin Ids(working_memory))

Level2(wm) == SelectSeq(wm, LAMBDA e : e.abstraction_level = 2)

\* no belief exists while working memory holds fewer than 5 patterns
NoEarlyBelief ==
    Len(Level1(working_memory)) < patterns_to_belief => Level2(working_memory) = <<>>

\* a store_raw_memory step on a working memory that holds 5 patterns adds
\* one belief over the first 5 patterns and keeps every pattern and belief
BeliefPerStore ==
    ( /\ last'.op = "store_raw_memory"
      /\ Len(Level1(working_memory)) >= patterns_to_belief )
    => /\ Len(Level2(working_memory')) = Len(Level2(working_memory)) + 1
       /\ \A b \in Range(Level2(working_memory')) :
             b.sources = IdSeq(Take(Level1(working_memory), 5))
       /\ Take(working_memory', Len(working_memory)) = working_memory
       /\ Len(working_memory') > Len(working_memory)

StoreCalls == nextId - 1 - Len(working_memory)

\* the patterns that name the raw entry id among their sources
PatternsOf(id) ==
    {p \in Range(Level1(working_memory)) :
        \E k \in 1..Len(p.sources) : p.sources[k] = id}

-----------------------------------------------------------------------------
(* The hypothesis engine on its own *)

\* rows of the theories table: a behavior and an engagement theory, each with
\* ten tests behind it
LoadedTheoryRows ==
    <<[category |-> "behavior", strength |-> <<9, 10>>, evidence_for |-> <<9, 1>>,
       evidence_against |-> <<1, 1>>, tests_performed |-> 10],
      [category |-> "engagement", strength |-> <<9, 10>>, evidence_for |-> <<9, 1>>,
       evidence_against |-> <<1, 1>>, tests_performed |-> 10]>>

\* a row as generate_theory_from_pattern inserts it
FreshTheoryRows ==
    <<[category |-> "behavior", strength |-> <<1, 2>>, evidence_for |-> <<0, 1>>,
       evidence_against |-> <<0, 1>>, tests_performed |-> 0]>>

\* LearningEngine._load_theories
LoadedTheories(rows) ==
    [i \in 1..Len(rows) |->
        [Theory(i, <<"behave", "certain situations">>, rows[i].category) EXCEPT
            !.strength = rows[i].strength,
            !.evidence_for = rows[i].evidence_for,
            !.evidence_against = rows[i].evidence_against,
            !.tests_performed = rows[i].tests_performed]]

InitEngineLoaded(rows) ==
    /\ brains = <<>>
    /\ nextId = Len(rows) + 1
    /\ nUpdates = 0
    /\ nAnalyses = 0
    /\ InitMemoryEmpty
    /\ theories = LoadedTheories(rows)
    /\ prediction_history = 0
    /\ InitMainBrain

InitE == InitEngineLoaded(LoadedTheoryRows)

InitT == InitEngineLoaded(FreshTheoryRows)

otherVarsE == <<brainVars, memVars, reasoning_log, threads>>

\* patterns given to generate_theory_from_pattern
Patterns ==
    {[pattern_type |-> "behave", context |-> "certain situations", category |-> c] :
        c \in {"behavior", "engagement"}}

\* signals given to learn_from_implicit_signals
LearnSignals ==
    {Signals(<<1, 2>>, 5, FALSE), Signals(<<9, 10>>, 5, FALSE),
     Signals(<<1, 2>>, 1, TRUE), Signals(<<9, 10>>, 5, TRUE)}

\* weights given to Theory.test
Weights == {<<0, 1>>, <<1, 2>>, <<1, 1>>}

Engine == [ts |-> theories, next |-> nextId, db |-> <<>>]

GenerateFromPattern ==
    \E pattern \in Patterns :
        /\ Len(theories) < MaxTheories
        /\ LET g == generate_theory_from_pattern(Engine, pattern)
           IN  /\ theories' = g.ts
               /\ nextId' = g.next
               /\ last' = Call("generate_theory_from_pattern", pattern, FALSE,
                               <<g.ts[Len(g.ts)]>>, g.db)
        /\ UNCHANGED <<prediction_history, otherVarsE>>

TestAgainstInteraction ==
    \E actual \in [Ids(theories) -> BOOLEAN] :
        /\ \A t \in Range(theories) : t.tests_performed < MaxTests
        /\ LET r == test_theories_against_interaction(Engine, actual)
           IN  /\ theories' = r.ts
               /\ nextId' = r.next
               /\ last' = Call("test_theories_against_interaction", actual, FALSE,
                               r.results, r.db)
        /\ UNCHANGED <<prediction_history, otherVarsE>>

Predict ==
    /\ prediction_history < MaxPredictions
    /\ LET prediction == predict_user_response(theories)
       IN  /\ prediction_history' = prediction_history + 1
           /\ last' = Call("predict_user_response", <<>>, FALSE, <<prediction>>, <<>>)
    /\ UNCHANGED <<theories, nextId, otherVarsE>>

LearnFromImplicitSignals ==
    \E signals \in LearnSignals :
        /\ \A t \in Range(theories) : t.tests_performed < MaxTests
        /\ (signals.topic_switched /\ signals.response_time_seconds < 2)
              => Len(theories) < MaxTheories
        /\ LET l == learn_from_implicit_signals(Engine, signals)
           IN  /\ theories' = l.ts
               /\ nextId' = l.next
               /\ last' = Call("learn_from_implicit_signals", signals, FALSE, <<>>, l.db)
        /\ UNCHANGED <<prediction_history, otherVarsE>>

NextE ==
    \/ GenerateFromPattern
    \/ TestAgainstInteraction
    \/ Predict
    \/ LearnFromImplicitSignals

\* the engine under its four operations
SpecEngine == InitE /\ [][NextE]_vars

\* Theory.test called on a live theory
TestTheory ==
    \E i \in 1..Len(theories), outcome \in BOOLEAN, weight \in Weights :
        /\ theories[i].tests_performed < MaxDirectTests
        /\ theories' = [theories EXCEPT ![i] = test(@, outcome, weight)]
        /\ last' = Call("test", <<i, outcome, weight>>, FALSE, <<>>, <<>>)
        /\ UNCHANGED <<nextId, prediction_history, otherVarsE>>

NextT == TestTheory

\* a theory under Theory.test
SpecTheory == InitT /\ [][NextT]_vars

\* rows of the theories table near the thresholds of _evolve_theories: weak
\* with 20 and with 19 tests, just above strength 0.2 with 24 tests, strong
\* with 10 tests, just above strength 0.7 with 19 tests
EvolveRows ==
    {[category |-> "behavior", strength |-> <<1, 10>>, evidence_for |-> <<2, 1>>,
      evidence_against |-> <<18, 1>>, tests_performed |-> 20],
     [category |-> "behavior", strength |-> <<2, 19>>, evidence_for |-> <<2, 1>>,
      evidence_against |-> <<17, 1>>, tests_performed |-> 19],
     [category |-> "behavior", strength |-> <<5, 24>>, evidence_for |-> <<5, 1>>,
      evidence_against |-> <<19, 1>>, tests_performed |-> 24],
     [category |-> "behavior", strength |-> <<9, 10>>, evidence_for |-> <<9, 1>>,
      evidence_against |-> <<1, 1>>, tests_performed |-> 10],
     [category |-> "engagement", strength |-> <<14, 19>>, evidence_for |-> <<14, 1>>,
      evidence_against |-> <<5, 1>>, tests_performed |-> 19]}

\* the number of active rows loaded
LoadedTheoryCount == 3

InitEV ==
    \E rows \in [1..LoadedTheoryCount -> EvolveRows] : InitEngineLoaded(rows)

\* test_theories_against_interaction on theories with a history
EvolveTest ==
    \E actual \in [Ids(theories) -> BOOLEAN] :
        /\ theories # <<>>
        /\ Len(theories) < MaxEvolveTheories
        /\ \A t \in Range(theories) : t.tests_performed < MaxEvolveTests
        /\ \E r \in {test_theories_against_interaction(Engine, actual)} :
               /\ theories' = r.ts
               /\ nextId' = r.next
               /\ last' = Call("test_theories_against_interaction", actual, FALSE,
                               r.results, r.db)
        /\ UNCHANGED <<prediction_history, otherVarsE>>

NextEV == EvolveTest

\* the engine testing and evolving theories loaded with their history
SpecEvolve == InitEV /\ [][NextEV]_vars

\* rows of the theories table with strength above, and on, the 0.6 that
\* predict_user_response asks for
PredictRows ==
    {[category |-> "behavior", strength |-> <<9, 10>>, evidence_for |-> <<9, 1>>,
      evidence_against |-> <<1, 1>>, tests_performed |-> 10],
     [category |-> "behavior", strength |-> <<7, 10>>, evidence_for |-> <<7, 1>>,
      evidence_against |-> <<3, 1>>, tests_performed |-> 10],
     [category |-> "behavior", strength |-> <<3, 5>>, evidence_for |-> <<3, 1>>,
      evidence_against |-> <<2, 1>>, tests_performed |-> 5]}

InitPR ==
    \E rows \in [1..MaxLoaded -> PredictRows] : InitEngineLoaded(rows)

NextPR == Predict

\* predictions from a loaded set of theories
SpecPredict == InitPR /\ [][NextPR]_vars

\* signals on and beside the thresholds of learn_from_implicit_signals:
\* engagement 0.6 and 0.9, response time 1 and 2 seconds
ThresholdSignals ==
    {Signals(engagement, response_time_seconds, topic_switched) :
        engagement \in {<<3, 5>>, <<9, 10>>},
        response_time_seconds \in {1, 2},
        topic_switched \in BOOLEAN}

\* rows of the theories table: a tested behavior theory, an engagement
\* theory tested once and an untested engagement theory
SignalRows ==
    {LoadedTheoryRows[1],
     [category |-> "engagement", strength |-> <<1, 1>>, evidence_for |-> <<1, 1>>,
      evidence_against |-> <<0, 1>>, tests_performed |-> 1],
     [category |-> "engagement", strength |-> <<1, 2>>, evidence_for |-> <<0, 1>>,
      evidence_against |-> <<0, 1>>, tests_performed |-> 0]}

InitSG ==
    \E rows \in [1..2 -> SignalRows] : InitEngineLoaded(rows)

LearnAtThresholds ==
    \E signals \in ThresholdSignals :
        /\ \A t \in Range(theories) :
              t.category = "engagement" => t.tests_performed < MaxSignalTests
        /\ (signals.topic_switched /\ signals.response_time_seconds < 2)
              => Len(theories) < MaxTheories
        /\ \E l \in {learn_from_implicit_signals(Engine, signals)} :
               /\ theories' = l.ts
               /\ nextId' = l.next
               /\ last' = Call("learn_from_implicit_signals", signals, FALSE, <<>>, l.db)
        /\ UNCHANGED <<prediction_history, otherVarsE>>

NextSG == LearnAtThresholds

\* the engine learning from implicit signals
SpecSignals == InitSG /\ [][NextSG]_vars

-----------------------------------------------------------------------------
(* Claims about the hypothesis engine *)

\* C3: Theory.test adds its weight to exactly one accumulator (evidence_for
\* if outcome, else evidence_against), increments tests_performed by one and
\* sets strength to evidence_for / (evidence_for + evidence_against) when
\* that sum is > 0, leaving it unchanged when the sum is 0; on a fresh theory
\* (true, 1.0) gives strength 1 and evidence_for 1, and a following
\* (false, 1.0) gives strength 0.5.
C3_TheoryTest ==
    [][last'.op = "test"
       => LET i == last'.arg[1]
              outcome == last'.arg[2]
              weight == last'.arg[3]
              old == theories[i]
              new == theories'[i]
              total == RAdd(new.evidence_for, new.evidence_against)
          IN  /\ new.tests_performed = old.tests_performed + 1
              /\ new.evidence_for
                    = IF outcome THEN RAdd(old.evidence_for, weight)
                      ELSE old.evidence_for
              /\ new.evidence_against
                    = IF outcome THEN old.evidence_against
                      ELSE RAdd(old.evidence_against, weight)
              /\ RLt(RInt(0), total) => new.strength = RDiv(new.evidence_for, total)
              /\ total = RInt(0) => new.strength = old.strength
              /\ ( /\ old.evidence_for = RInt(0)
                   /\ old.evidence_against = RInt(0)
                   /\ outcome
                   /\ weight = RInt(1) )
                 => new.strength = RInt(1) /\ new.evidence_for = RInt(1)
              /\ ( /\ old.evidence_for = RInt(1)
                   /\ old.evidence_against = RInt(0)
                   /\ ~outcome
                   /\ weight = RInt(1) )
                 => new.strength = <<1, 2>>
              /\ \A j \in 1..Len(theories) : j # i => theories'[j] = theories[j]]_vars

\* the fresh theory after test(true, 1.0) and then test(false, 1.0)
C3_Witness ==
    /\ last.op = "test"
    /\ last.arg = <<1, FALSE, RInt(1)>>
    /\ theories[1].tests_performed = 2
    /\ theories[1].evidence_for = RInt(1)
    /\ theories[1].evidence_against = RInt(1)
    /\ theories[1].strength = <<1, 2>>

\* C10: every live theory with evidence_for + evidence_against > 0 has
\* strength = evidence_for / (evidence_for + evidence_against), also a
\* theory created by merge.
C10_StrengthFromEvidence ==
    \A t \in Range(theories) :
        RLt(RInt(0), RAdd(t.evidence_for, t.evidence_against))
        => t.strength = RDiv(t.evidence_for, RAdd(t.evidence_for, t.evidence_against))

\* the theories that the evolve step of a test_theories_against_interaction
\* step merges: the first two that, once tested, have strength > 0.7 and
\* more than 10 tests (the step reports the new strength of each theory)
Parents ==
    LET strong == SelectSeq([i \in 1..Len(theories) |-> i],
                     LAMBDA i : /\ RLt(<<7, 10>>, last'.out[i].new_strength)
                                /\ theories[i].tests_performed + 1 > MergeMinTests)
    IN  IF Len(strong) >= 2 THEN {theories[strong[1]].id, theories[strong[2]].id}
        ELSE {}

\* C18: when an evolve pass merges two theories, the merged theory is live
\* afterwards and neither parent is.
C18_MergeRemovesParents ==
    [][( /\ last'.op = "test_theories_against_interaction"
         /\ Parents # {} )
       => /\ \E t \in Range(theories') : t.id \notin Ids(theories)
          /\ Parents \cap Ids(theories') = {}]_vars

\* in a test_theories_against_interaction step: whether theory i, once
\* tested, has more than 20 tests and strength < 0.2 (the step reports the
\* new strength of each theory)
WeakAfterTest(i) ==
    /\ theories[i].tests_performed + 1 > 20
    /\ RLt(last'.out[i].new_strength, <<1, 5>>)

\* C26: the prune step drops exactly the theories that, once tested, have
\* tests_performed > 20 and strength < 0.2: none of them is live after the
\* call, and every other theory still is
C26_PruneExact ==
    [][last'.op = "test_theories_against_interaction"
       => /\ Len(last'.out) = Len(theories)
          /\ \A i \in 1..Len(theories) :
                /\ last'.out[i].theory_id = theories[i].id
                /\ WeakAfterTest(i) <=> theories[i].id \notin Ids(theories')]_vars

\* a call after which a weak theory with 21 tests is gone while a weak one
\* with 20 tests and one of strength exactly 0.2 with 25 tests are live
C26_Witness ==
    /\ last.op = "test_theories_against_interaction"
    /\ Len(last.out) = 3
    /\ Len(theories) = 2
    /\ last.out[1].theory_id \notin Ids(theories)
    /\ theories[1].tests_performed = 20 /\ RLt(theories[1].strength, <<1, 5>>)
    /\ theories[2].tests_performed = 25 /\ theories[2].strength = <<1, 5>>

\* in a test_theories_against_interaction step: theory i as the test leaves it
Tested(i) ==
    [theories[i] EXCEPT
        !.tests_performed = @ + 1,
        !.strength = last'.out[i].new_strength,
        !.evidence_for = IF last'.out[i].match THEN RAdd(@, RInt(1)) ELSE @,
        !.evidence_against = IF last'.out[i].match THEN @ ELSE RAdd(@, RInt(1))]

\* the theories that qualify for a merge in that step: live after pruning,
\* strength > 0.7 and more than 10 tests
Qualifying ==
    {i \in 1..Len(theories) :
        /\ ~WeakAfterTest(i)
        /\ RLt(<<7, 10>>, Tested(i).strength)
        /\ Tested(i).tests_performed > 10}

\* the theories a step adds
NewTheories == SelectSeq(theories', LAMBDA t : t.id \notin Ids(theories))

\* C27: an evolve pass adds a merged theory if and only if at least two
\* live theories have strength > 0.7 and tests_performed > 10; it adds
\* exactly one, built from two distinct qualifying theories: its hypothesis
\* is the conjunction of theirs, its strength the mean of their strengths,
\* and its evidence_for, evidence_against and tests_performed their sums
C27_MergeOfTwoStrong ==
    [][last'.op = "test_theories_against_interaction"
       => /\ Len(NewTheories) = IF Cardinality(Qualifying) >= 2 THEN 1 ELSE 0
          /\ \A k \in 1..Len(NewTheories) :
                \E i \in Qualifying, j \in Qualifying :
                    /\ i # j
                    /\ NewTheories[k].hypothesis
                          = Tested(i).hypothesis \o <<"AND">> \o Tested(j).hypothesis
                    /\ NewTheories[k].strength
                          = RDiv(RAdd(Tested(i).strength, Tested(j).strength), RInt(2))
                    /\ NewTheories[k].evidence_for
                          = RAdd(Tested(i).evidence_for, Tested(j).evidence_for)
                    /\ NewTheories[k].evidence_against
                          = RAdd(Tested(i).evidence_against, Tested(j).evidence_against)
                    /\ NewTheories[k].tests_performed
                          = Tested(i).tests_performed + Tested(j).tests_performed]_vars

\* a call that merged a theory of strength 10/11 with one of strength 3/4
\* while a third theory of strength exactly 0.7 with 20 tests took no part
C27_Witness ==
    /\ last.op = "test_theories_against_interaction"
    /\ Len(theories) = 4
    /\ theories[1].strength = <<10, 11>>
    /\ theories[2].strength = <<3, 4>> /\ theories[2].tests_performed = 20
    /\ theories[3].strength = <<7, 10>> /\ theories[3].tests_performed = 20
    /\ theories[4].strength = <<73, 88>>
    /\ theories[4].tests_performed = 31
    /\ theories[4].evidence_for = RInt(25)

\* the live theories with strength > 0.6, in the order of the dict
Relevant == SelectSeq(theories, LAMBDA t : RLt(<<3, 5>>, t.strength))

\* C28: predict_user_response lists as reasoning the first (at most 5) live
\* theories with strength > 0.6 and returns as confidence the mean of the
\* strengths it lists, 0.5 when there is none, also when more than 5
\* qualify; the call adds one record to the prediction history and changes
\* no theory
C28_ConfidenceOfListed ==
    [][last'.op = "predict_user_response"
       => LET prediction == last'.out[1]
              listed == prediction.reasoning
          IN  /\ Len(listed) = IF Len(Relevant) > 5 THEN 5 ELSE Len(Relevant)
              /\ \A k \in 1..Len(listed) :
                    /\ listed[k].theory = Relevant[k].id
                    /\ listed[k].strength = Relevant[k].strength
              /\ prediction.confidence
                    = IF listed = <<>> THEN <<1, 2>>
                      ELSE RMean([k \in 1..Len(listed) |-> listed[k].strength])
              /\ prediction_history' = prediction_history + 1
              /\ theories' = theories]_vars

\* the theory t after one test of weight 0.5 with the given outcome
HalfTested(t, outcome) ==
    LET ef == IF outcome THEN RAdd(t.evidence_for, <<1, 2>>) ELSE t.evidence_for
        ea == IF outcome THEN t.evidence_against ELSE RAdd(t.evidence_against, <<1, 2>>)
    IN  [t EXCEPT !.tests_performed = @ + 1,
                  !.evidence_for = ef,
                  !.evidence_against = ea,
                  !.strength = RDiv(ef, RAdd(ef, ea))]

\* C29: learn_from_implicit_signals tests each engagement theory live at
\* the start of the call exactly once, with weight 0.5 and outcome
\* (engagement > 0.6), and leaves every other theory unchanged; it adds one
\* new engagement theory (disengage_quickly, strength 0.5, no evidence, not
\* tested) if and only if topic_switched holds and the response time is
\* under 2 seconds
C29_ImplicitSignals ==
    [][last'.op = "learn_from_implicit_signals"
       => LET signals == last'.arg
              spawns == signals.topic_switched /\ signals.response_time_seconds < 2
          IN  /\ Len(theories') = Len(theories) + IF spawns THEN 1 ELSE 0
              /\ \A i \in 1..Len(theories) :
                    theories'[i]
                       = IF theories[i].category = "engagement"
                         THEN HalfTested(theories[i], RLt(<<3, 5>>, signals.engagement))
                         ELSE theories[i]
              /\ spawns =>
                    theories'[Len(theories')]
                       = [id |-> nextId,
                          hypothesis |-> <<"disengage_quickly", "certain topics">>,
                          category |-> "engagement", strength |-> <<1, 2>>,
                          evidence_for |-> <<0, 1>>, evidence_against |-> <<0, 1>>,
                          tests_performed |-> 0]
              /\ nextId' = nextId + IF spawns THEN 1 ELSE 0]_vars

\* a call with engagement exactly 0.6 that counted against a fresh
\* engagement theory, left the behavior theory alone and spawned a theory
C29_Witness ==
    /\ last.op = "learn_from_implicit_signals"
    /\ last.arg = Signals(<<3, 5>>, 1, TRUE)
    /\ Len(theories) = 3
    /\ theories[1].category = "behavior" /\ theories[1].tests_performed = 10
    /\ theories[2].category = "engagement"
    /\ theories[2].tests_performed = 1
    /\ theories[2].evidence_against = <<1, 2>>
    /\ theories[2].strength = <<0, 1>>
    /\ theories[3].tests_performed = 0

-----------------------------------------------------------------------------
(* The three stores over a database whose calls may fail *)

\* rows of the theories table: two strong theories and a weak one with
\* twenty tests behind it
PersistTheoryRows ==
    LoadedTheoryRows \o
    <<[category |-> "behavior", strength |-> <<1, 10>>, evidence_for |-> <<2, 1>>,
       evidence_against |-> <<18, 1>>, tests_performed |-> 20]>>

\* strengths in the rows of the brains table
LoadedStrengthsP == {<<(<<2, 5>>), (<<3, 5>>)>>}

InitP ==
    /\ \E bs \in LoadedBrains(LoadedStrengthsP) : brains = bs
    /\ nextId = 4
    /\ nUpdates = 0
    /\ nAnalyses = 0
    /\ short_term_memory = LoadedShortTerm
    /\ working_memory = <<>>
    /\ clock = 0
    /\ theories = LoadedTheories(PersistTheoryRows)
    /\ prediction_history = 0
    /\ InitMainBrain

\* the sets of positions at which the calls of an operation may fail
Failures(calls) == SUBSET (1..Len(calls))

\* a call of an operation whose persistence calls at the positions in
\* failing fail; out holds what it returned and what was written and printed
PersistedCall(op, arg, failing, returned, calls) ==
    LET p == Persist(calls, failing)
    IN  Call(op, [arg |-> arg, failing |-> failing, calls |-> calls], p.raised,
             [returned |-> returned, printed |-> p.printed], p.written)

PersistCreate ==
    /\ nextId <= MaxPersistIds
    /\ \E c \in {create_brain(brains, nextId, "custom")} :
          \E failing \in Failures(c.db) :
             /\ brains' = c.brains
             /\ last' = PersistedCall("create_brain", <<>>, failing, <<nextId>>, c.db)
    /\ nextId' = nextId + 1
    /\ UNCHANGED <<nUpdates, nAnalyses, otherVarsB>>

PersistTerminate ==
    \E id \in Ids(brains) :
        \E t \in {terminate_brain(brains, id)} :
           \E failing \in Failures(t.db) :
              /\ brains' = t.brains
              /\ last' = PersistedCall("terminate_brain", id, failing, <<>>, t.db)
              /\ UNCHANGED <<nextId, nUpdates, nAnalyses, otherVarsB>>

\* the lists given to merge_brains are pairs of live ids; the pattern given to
\* generate_theory_from_pattern is the engagement one
PersistMerge ==
    \E brain_ids \in {ids \in SeqsOf(Ids(brains), {2}) : ids[1] < ids[2]} :
        /\ nextId <= MaxPersistIds
        /\ \E m \in {merge_brains(brains, brain_ids, nextId, "merged")} :
              \E failing \in Failures(m.db) :
                 /\ brains' = m.brains
                 /\ nextId' = nextId + 1
                 /\ last' = PersistedCall("merge_brains", brain_ids, failing,
                                          m.merged, m.db)
        /\ UNCHANGED <<nUpdates, nAnalyses, otherVarsB>>

PersistStoreRaw ==
    /\ nextId + 1 <= MaxPersistIds
    /\ \E m \in {store_raw_memory([st |-> short_term_memory, wm |-> working_memory,
                                     next |-> nextId, db |-> <<>>],
                                    "interaction", clock)} :
          \E failing \in Failures(m.db) :
             /\ short_term_memory' = m.st
             /\ working_memory' = m.wm
             /\ nextId' = m.next
             /\ last' = PersistedCall("store_raw_memory", <<>>, failing,
                                      <<m.entry>>, m.db)
    /\ UNCHANGED <<clock, otherVarsM>>

PersistGenerate ==
    \E pattern \in {p \in Patterns : p.category = "engagement"} :
        /\ nextId <= MaxPersistIds
        /\ Len(theories) < MaxTheories + 1
        /\ \E g \in {generate_theory_from_pattern(Engine, pattern)} :
              \E failing \in Failures(g.db) :
                 /\ theories' = g.ts
                 /\ nextId' = g.next
                 /\ last' = PersistedCall("generate_theory_from_pattern", pattern,
                                          failing, <<g.ts[Len(g.ts)]>>, g.db)
        /\ UNCHANGED <<prediction_history, otherVarsE>>

\* test_theories_against_interaction, whose last step is _evolve_theories
PersistEvolve ==
    \E actual \in [Ids(theories) -> BOOLEAN] :
        /\ nextId <= MaxPersistIds
        /\ \A t \in Range(theories) : t.tests_performed <= PruneMinTests
        /\ \E r \in {test_theories_against_interaction(Engine, actual)} :
              \E failing \in Failures(r.db) :
                 /\ theories' = r.ts
                 /\ nextId' = r.next
                 /\ last' = PersistedCall("test_theories_against_interaction", actual,
                                          failing, r.results, r.db)
        /\ UNCHANGED <<prediction_history, otherVarsE>>

NextP ==
    \/ PersistCreate
    \/ PersistTerminate
    \/ PersistMerge
    \/ PersistStoreRaw
    \/ PersistGenerate
    \/ PersistEvolve

\* the operations that write to the database, any of the writes failing
SpecPersist == InitP /\ [][NextP]_vars

-----------------------------------------------------------------------------
(* Claims about persistence *)

\* C13: persistence is a best-effort mirror.  For create_brain,
\* terminate_brain, merge_brains, store_raw_memory (with the promotion it
\* triggers), generate_theory_from_pattern and the evolve step, whichever of
\* the persistence calls fail, nothing is raised to the caller, the calls
\* that did not fail are written, and the in-memory state and the value
\* returned are those of the run in which every call succeeds.
C13_BestEffortPersistence ==
    [][LET op == last'.op
           arg == last'.arg.arg
           calls == last'.arg.calls
           returned == last'.out.returned
           removed(old, new) == {x \in Ids(old) : x \notin Ids(new)}
           added(old, new) == {x \in Ids(new) : x \notin Ids(old)}
           ids(kind) == {calls[k].id : k \in {n \in 1..Len(calls) : calls[n].call = kind}}
       IN  /\ ~last'.raised
           /\ last'.db = Except(calls, last'.arg.failing)
           /\ last'.out.printed = Cardinality(last'.arg.failing)
           /\ nextId' = nextId + Cardinality(ids("insert"))
           /\ Cardinality(ids("insert")) + Cardinality(ids("update")) = Len(calls)
           /\ op = "create_brain"
                 => /\ brains' = Append(brains, Brain(nextId, "custom"))
                    /\ returned = <<nextId>>
                    /\ calls = <<DbCall("insert", "brains", nextId)>>
           /\ op = "terminate_brain"
                 => /\ brains' = DelKey(brains, arg)
                    /\ calls = <<DbCall("update", "brains", arg)>>
           /\ op = "merge_brains"
                 => /\ returned[1].id = nextId
                    /\ returned[1] \in Range(brains')
                    /\ removed(brains, brains') = {arg[1], arg[2]}
                    /\ added(brains, brains') = {nextId}
                    /\ calls = <<DbCall("insert", "brains", nextId),
                                 DbCall("update", "brains", arg[1]),
                                 DbCall("update", "brains", arg[2])>>
           /\ op = "store_raw_memory"
                 => /\ returned[1].id = nextId
                    /\ added(working_memory, working_memory') \cup {nextId} = ids("insert")
                    /\ Len(calls) = 1 + Len(working_memory') - Len(working_memory)
                    /\ \/ returned[1] \in Range(short_term_memory')
                       \/ \E e \in Range(working_memory') :
                             /\ e.id \notin Ids(working_memory)
                             /\ nextId \in Range(e.sources)
                    /\ Len(short_term_memory) + 1 >= raw_to_pattern
                          <=> Len(working_memory') = Len(working_memory) + 1
           /\ op = "generate_theory_from_pattern"
                 => /\ theories' = Append(theories,
                                          Theory(nextId, <<arg.pattern_type, arg.context>>,
                                                 arg.category))
                    /\ returned = <<theories'[Len(theories')]>>
                    /\ calls = <<DbCall("insert", "theories", nextId)>>
           /\ op = "test_theories_against_interaction"
                 => /\ Len(returned) = Len(theories)
                    /\ removed(theories, theories') = ids("update")
                    /\ added(theories, theories') = ids("insert")
                    /\ \A t \in Range(theories) :
                          t.id \in Ids(theories')
                          => Get(theories', t.id).tests_performed = t.tests_performed + 1]_vars

\* an evolve step has pruned the weak theory and merged the two strong ones
\* while both of its persistence calls failed
C13_Witness ==
    /\ last.op = "test_theories_against_interaction"
    /\ Len(last.arg.calls) = 2
    /\ last.arg.calls[1].call = "update"
    /\ last.arg.calls[2].call = "insert"
    /\ last.arg.failing = {1, 2}
    /\ last.db = <<>>
    /\ last.out.printed = 2
    /\ ~last.raised
    /\ 3 \notin Ids(theories)
    /\ \E t \in Range(theories) : t.tests_performed = 22

-----------------------------------------------------------------------------
(* The orchestrator: the entry points of the application *)

Init ==
    /\ \E bs \in {DefaultBrains} \cup LoadedBrains(LoadedStrengthsB) :
          InitBrainManager(bs)
    /\ InitMemoryEmpty
    /\ InitEngineEmpty
    /\ InitMainBrain

\* the kinds given to adapt_architecture
AdaptKinds == {"create_brain", "consolidate_memory", "evaluate_brains"}

ProcessInput ==
    \E failing \in SUBSET Ids(brains), actual \in [Ids(theories) -> BOOLEAN],
       response_fails \in BOOLEAN :
        /\ nAnalyses < MaxRequests
        /\ \E r \in {process_user_input(
                        [brains |-> brains, st |-> short_term_memory,
                         wm |-> working_memory, ts |-> theories, next |-> nextId,
                         now |-> clock, predictions |-> prediction_history,
                         log |-> reasoning_log],
                        "hello", failing, actual, response_fails)} :
               /\ brains' = r.state.brains
               /\ short_term_memory' = r.state.st
               /\ working_memory' = r.state.wm
               /\ theories' = r.ts
               /\ nextId' = r.next
               /\ prediction_history' = r.state.predictions
               /\ reasoning_log' = r.log
               /\ last' = Call("process_user_input",
                               [failing |-> failing, actual |-> actual,
                                response_fails |-> response_fails,
                                context |-> r.state.context_for_model],
                               r.raised, r.returned, r.db)
        /\ nAnalyses' = nAnalyses + 1
        /\ UNCHANGED <<nUpdates, clock, threads>>

\* MainBrain.adapt_architecture
Adapt ==
    \E adaptation_type \in AdaptKinds :
        LET c == consolidate_memories(short_term_memory, clock)
            e == evaluate_brain_performance(brains)
        IN  /\ short_term_memory' = IF adaptation_type = "consolidate_memory"
                                    THEN c.st ELSE short_term_memory
            /\ brains' = IF adaptation_type = "evaluate_brains"
                         THEN e.brains ELSE brains
            /\ last' = Call("adapt_architecture", adaptation_type, FALSE,
                            IF adaptation_type = "consolidate_memory"
                            THEN <<[memories_removed |-> c.removed]>> ELSE <<>>,
                            IF adaptation_type = "evaluate_brains" THEN e.db ELSE <<>>)
            /\ UNCHANGED <<working_memory, theories, nextId, prediction_history,
                           reasoning_log, clock, nUpdates, nAnalyses, threads>>

Next ==
    \/ ProcessInput
    \/ Adapt
    \/ Tick

Spec == Init /\ [][Next]_vars

\* rows of the theories table for a MainBrain with a history: an engagement
\* and a behavior theory, each with ten tests behind it
RequestTheoryRows == <<LoadedTheoryRows[2], LoadedTheoryRows[1]>>

\* the numbers of level-0 rows among the recent rows of the memories table
LoadedRawCounts == {0, 4}

\* MemorySystem._load_recent_memories over n level-0 rows, their ids apart
\* from those of the theories
LoadedRaw(n) ==
    [i \in 1..n |-> MemoryEntry(Len(RequestTheoryRows) + i, "interaction", 0, 0)]

\* MainBrain.__init__ over a database that holds two active brains, two
\* theories and no raw memory, or four: one short of a pattern
InitRQ ==
    /\ \E bs \in LoadedBrains({<<<<1, 2>>, <<4, 5>>>>}), n \in LoadedRawCounts :
          /\ brains = bs
          /\ short_term_memory = LoadedRaw(n)
          /\ nextId = Len(RequestTheoryRows) + n + 1
    /\ nUpdates = 0
    /\ nAnalyses = 0
    /\ working_memory = <<>>
    /\ clock = 0
    /\ theories = LoadedTheories(RequestTheoryRows)
    /\ prediction_history = 0
    /\ InitMainBrain

NextRQ == ProcessInput

\* requests to a MainBrain whose stores are loaded
SpecRequest == InitRQ /\ [][NextRQ]_vars

-----------------------------------------------------------------------------
(* Claims about the orchestrator *)

\* the findings the fan-out of a request returns: one per live brain whose
\* analyze does not fail, with the brain's strength as confidence
ExpectedConfidences(failing) ==
    LET ok == SelectSeq(brains, LAMBDA b : b.id \notin failing)
    IN  [i \in 1..Len(ok) |-> ok[i].strength]

\* C14: a request in which the response generator fails still returns a
\* response to its caller: the failure does not leave process_user_input, and
\* the implicit learning and the append to the reasoning log still run.
C14_ResponseFaultContained ==
    [][( /\ last'.op = "process_user_input"
         /\ last'.arg.response_fails )
       => /\ ~last'.raised
          /\ Len(last'.out) = 1
          /\ Len(reasoning_log') = Len(reasoning_log) + 1]_vars

\* in a process_user_input step: the theory t after the test of phase 4,
\* where actual is what _evaluate_theory_fit finds
AfterTest(t, actual) ==
    LET match == (actual[t.id] = RLt(<<1, 2>>, t.strength))
        ef == IF match THEN RAdd(t.evidence_for, RInt(1)) ELSE t.evidence_for
        ea == IF match THEN t.evidence_against ELSE RAdd(t.evidence_against, RInt(1))
    IN  [t EXCEPT !.tests_performed = @ + 1,
                  !.evidence_for = ef,
                  !.evidence_against = ea,
                  !.strength = RDiv(ef, RAdd(ef, ea))]

\* the theory t after the implicit signals of phase 7, which carry no
\* engagement key: the default 0.5 is not above 0.6
AfterSignals(t) ==
    IF t.category = "engagement" THEN HalfTested(t, FALSE) ELSE t

\* the memory with this id before the step, <<>> if the step made it
Before(id) ==
    SelectSeq(short_term_memory \o working_memory, LAMBDA e : e.id = id)

\* what a process_user_input step shows of its phases, each done once and in
\* the order of the pipeline
PhasesInOrder ==
    LET arg == last'.arg
        context == arg.context
        conf == ExpectedConfidences(arg.failing)
        reasoning == context.prediction.reasoning
        kept == short_term_memory' \o working_memory'
    IN  \* the raw interaction is stored, under the next id
        /\ \/ nextId \in Ids(short_term_memory')
           \/ \E p \in Range(working_memory') :
                 /\ p.id \notin Ids(working_memory)
                 /\ \E k \in 1..Len(p.sources) : p.sources[k] = nextId
        /\ Ids(short_term_memory') \subseteq Ids(short_term_memory) \cup {nextId}
        \* every brain is asked once
        /\ Len(brains') = Len(brains)
        /\ \A i \in 1..Len(brains) :
              brains'[i].analysis_count = brains[i].analysis_count + 1
        \* the findings are aggregated
        /\ context.system_confidence
              = IF conf = <<>> THEN <<3, 10>> ELSE RMean(conf)
        \* the retrieval comes after the store and its promotion: it reaches
        \* the entry or the pattern just made, and every memory once
        /\ Len(kept) <= 5
              => /\ \A e \in Range(kept) :
                       e.access_count
                          = 1 + IF Before(e.id) = <<>> THEN 0
                                ELSE Before(e.id)[1].access_count
                 /\ context.relevant_memories
                       = Take(working_memory' \o short_term_memory', 3)
        \* the prediction is made once, from the theories as the test and
        \* the evolve pass left them
        /\ prediction_history' = prediction_history + 1
        /\ Len(theories') <= 5
              => /\ \A t \in Range(theories) :
                       ( /\ t.id \in Ids(theories')
                         /\ RLt(<<3, 5>>, AfterTest(t, arg.actual).strength) )
                       => [theory |-> t.id,
                           strength |-> AfterTest(t, arg.actual).strength]
                             \in Range(reasoning)
                 /\ \A k \in 1..Len(NewTheories) :
                       \E r \in Range(reasoning) : r.theory = NewTheories[k].id
        \* the response generator is called and its text returned
        /\ ~last'.raised
        /\ Len(last'.out) = 1
        \* the implicit signals reach every theory the test and the evolve
        \* pass left, once
        /\ \A t \in Range(theories) :
              t.id \in Ids(theories')
                 => Get(theories', t.id) = AfterSignals(AfterTest(t, arg.actual))
        /\ \A k \in 1..Len(NewTheories) :
              NewTheories[k].category = "engagement"
                 => \E r \in Range(reasoning) :
                       /\ r.theory = NewTheories[k].id
                       /\ RLt(NewTheories[k].strength, r.strength)
                       /\ \E t \in Range(theories), u \in Range(theories) :
                             /\ t.id # u.id
                             /\ NewTheories[k].tests_performed
                                   = t.tests_performed + u.tests_performed + 3
        \* one record is appended to the reasoning log
        /\ Len(reasoning_log) < LogCapacity
              => /\ Len(reasoning_log') = Len(reasoning_log) + 1
                 /\ reasoning_log'[Len(reasoning_log')].meta_confidence
                       = context.system_confidence

\* C30: in every request the phases happen once each and in this order:
\* store the raw interaction (with the promotion it triggers), fan out to the
\* brains, aggregate, retrieve up to 5 memories, test the theories (with
\* evolve), predict, call the response generator, feed the implicit signals
\* to the engine, append the record to the reasoning log.
C30_PhasesInOrder ==
    [][last'.op = "process_user_input" => PhasesInOrder]_vars

\* no theory is live, and the prediction of the last request rests on none
NoTheory ==
    /\ theories = <<>>
    /\ last.op = "process_user_input"
          => /\ last.arg.context.prediction.confidence = <<1, 2>>
             /\ last.arg.context.prediction.reasoning = <<>>
             /\ last.arg.context.active_theories = <<>>

\* a request spawns no disengage_quickly theory, and its signals count
\* against every engagement theory: evidence_for is as the test of phase 4
\* left it
NegativeSignals ==
    ( /\ last'.op = "process_user_input"
      /\ ~last'.raised )
    => /\ \A t \in Range(theories') : t.hypothesis[1] # "disengage_quickly"
       /\ \A t \in Range(theories) :
             ( /\ t.id \in Ids(theories')
               /\ t.category = "engagement" )
             => /\ Get(theories', t.id).evidence_for
                      = AfterTest(t, last'.arg.actual).evidence_for
                /\ Get(theories', t.id).evidence_against
                      = RAdd(AfterTest(t, last'.arg.actual).evidence_against, <<1, 2>>)

\* C33: through process_user_input and adapt_architecture alone no theory
\* is ever created: from zero theories the live set stays empty and every
\* prediction has confidence 0.5, because the signals of a request never
\* meet the spawn condition (and count against engagement theories).
C33_NoTheoryFromRequests == []NoTheory /\ [][NegativeSignals]_vars

\* two requests answered and their signals fed to the engine
C33_Witness ==
    /\ last.op = "process_user_input"
    /\ ~last.raised
    /\ prediction_history = 2
    /\ Len(reasoning_log) = 2
    /\ theories = <<>>
    /\ last.arg.context.prediction.confidence = <<1, 2>>

\* C16: every request appends one record to the reasoning log and, when the
\* log holds more than 100 records, the oldest is evicted: after each request
\* the log is the last 100 of the old log followed by the request's record.
C16_TraceKeepsLatest ==
    [][last'.op = "process_user_input"
       => /\ Len(reasoning_log') <= LogCapacity
          /\ Len(reasoning_log') >= 1
          /\ reasoning_log'[Len(reasoning_log')].user_input = "hello"
          /\ reasoning_log'[Len(reasoning_log')].brain_count
                = Len(ExpectedConfidences(last'.arg.failing))
          /\ SubSeq(reasoning_log', 1, Len(reasoning_log') - 1)
                = TakeLast(reasoning_log, LogCapacity - 1)]_vars

\* C9: the confidence process_user_input returns is the meta confidence: the
\* arithmetic mean of the confidences of the findings of the fan-out, 0.3
\* when there is no finding, and 0.5 with the five default units at 0.5.
C9_MetaConfidence ==
    [][( /\ last'.op = "process_user_input"
         /\ ~last'.raised )
       => LET conf == ExpectedConfidences(last'.arg.failing)
          IN  /\ Len(last'.out) = 1
              /\ conf # <<>> => last'.out[1].confidence = RMean(conf)
              /\ conf = <<>> => last'.out[1].confidence = <<3, 10>>
              /\ (brains = DefaultBrains /\ last'.arg.failing = {})
                    => last'.out[1].confidence = <<1, 2>>
              /\ reasoning_log'[Len(reasoning_log')].meta_confidence
                    = last'.out[1].confidence]_vars

\* a request over units of strengths 0.4, 0.6 and 1.0, the last one failing,
\* returned the confidence 0.5
C9_Witness ==
    /\ last.op = "process_user_input"
    /\ ~last.raised
    /\ Len(brains) = 3
    /\ brains[1].strength = <<2, 5>>
    /\ brains[2].strength = <<3, 5>>
    /\ last.arg.failing = {3}
    /\ last.out[1].confidence = <<1, 2>>


-----------------------------------------------------------------------------
(* Requests served at the same time *)

\* app.py runs the Flask development server, which serves every request on a
\* thread of its own; all requests share the one MainBrain and its stores,
\* and no method of the stores takes a lock.  A request in flight is a
\* record: the call it runs, its position in the call's code, and the call's
\* local variables (i the loop index, raw the list being iterated or built,
\* acc the running sum, new the id the call allocated, n a recorded length,
\* to_remove the list of that name, keys the keys a dict held when the
\* iterator over it was made, seen the theories live when the call began).
\* touched lists the ids whose object the call has modified so far and
\* error is the exception that ended the call, "" when there is none.
Thread(op, arg) ==
    [op |-> op, arg |-> arg, pc |-> "start", i |-> 1, raw |-> <<>>,
     acc |-> <<0, 1>>, new |-> 0, n |-> 0, to_remove |-> <<>>, keys |-> {}, seen |-> {},
     touched |-> <<>>, error |-> ""]

\* the exception leaves the call: nothing in the stores catches it
Raise(th, exception) == [th EXCEPT !.pc = "raised", !.error = exception]

Finished(th) == th.pc \in {"done", "raised"}

-----------------------------------------------------------------------------
(* Two requests in store_raw_memory *)

InitStoreRace ==
    /\ brains = <<>>
    /\ nextId = Len(LoadedShortTerm) + 1
    /\ nUpdates = 0
    /\ nAnalyses = 0
    /\ short_term_memory = LoadedShortTerm
    /\ working_memory = <<>>
    /\ clock = 0
    /\ InitEngineEmpty
    /\ reasoning_log = <<>>
    /\ last = NoCall
    /\ threads = <<Thread("store_raw_memory", <<>>), Thread("store_raw_memory", <<>>)>>

otherVarsR == <<brainVars, engineVars, reasoning_log, clock, last>>

\* store_raw_memory up to the call of _check_abstraction_opportunities: the
\* entry is created and put into short-term memory
StoreInsert(t) ==
    /\ threads[t].op = "store_raw_memory"
    /\ threads[t].pc = "start"
    /\ short_term_memory' = Append(short_term_memory,
                                   MemoryEntry(nextId, "user_input", 0, clock))
    /\ nextId' = nextId + 1
    /\ threads' = [threads EXCEPT ![t].new = nextId, ![t].pc = "check"]
    /\ UNCHANGED <<working_memory, otherVarsR>>

\* _check_abstraction_opportunities: the test of the short-term length
StoreCheck(t) ==
    /\ threads[t].pc = "check"
    /\ threads' = [threads EXCEPT ![t].pc =
                        IF Len(short_term_memory) >= raw_to_pattern
                        THEN "sort" ELSE "count"]
    /\ UNCHANGED <<short_term_memory, working_memory, nextId, otherVarsR>>

\* _abstract_to_pattern: raw_memories = sorted(...)[:5], a list of the
\* entry objects taken in one step
StoreSort(t) ==
    /\ threads[t].pc = "sort"
    /\ threads' = [threads EXCEPT
                        ![t].raw = IdSeq(Take(SortByCreated(short_term_memory),
                                              raw_to_pattern)),
                        ![t].pc = "pattern"]
    /\ UNCHANGED <<short_term_memory, working_memory, nextId, otherVarsR>>

\* _abstract_to_pattern: the pattern is created over raw_memories and put
\* into working memory
StorePattern(t) ==
    /\ threads[t].pc = "pattern"
    /\ working_memory' = Append(working_memory,
                                [MemoryEntry(nextId, "pattern", 1, clock) EXCEPT
                                    !.importance = <<7, 10>>,
                                    !.sources = threads[t].raw])
    /\ nextId' = nextId + 1
    /\ threads' = [threads EXCEPT ![t].i = 1, ![t].pc = "halve"]
    /\ UNCHANGED <<short_term_memory, otherVarsR>>

\* the loop over raw_memories: raw_mem.importance *= 0.5 on the entry
\* object, whether or not short-term memory still holds it
StoreHalve(t) ==
    /\ threads[t].pc = "halve"
    /\ LET th == threads[t]
       IN  IF th.i > Len(th.raw)
           THEN /\ threads' = [threads EXCEPT ![t].pc = "count"]
                /\ UNCHANGED short_term_memory
           ELSE /\ short_term_memory' =
                      [k \in 1..Len(short_term_memory) |->
                          IF short_term_memory[k].id = th.raw[th.i]
                          THEN [short_term_memory[k] EXCEPT
                                    !.importance = RMul(@, <<1, 2>>)]
                          ELSE short_term_memory[k]]
                /\ threads' = [threads EXCEPT
                                    ![t].touched = Append(@, th.raw[th.i]),
                                    ![t].pc = "in"]
    /\ UNCHANGED <<working_memory, nextId, otherVarsR>>

\* the loop over raw_memories: if raw_mem.id in self.short_term_memory
StoreIn(t) ==
    /\ threads[t].pc = "in"
    /\ LET th == threads[t]
       IN  threads' = IF th.raw[th.i] \in Ids(short_term_memory)
                      THEN [threads EXCEPT ![t].pc = "del"]
                      ELSE [threads EXCEPT ![t].i = @ + 1, ![t].pc = "halve"]
    /\ UNCHANGED <<short_term_memory, working_memory, nextId, otherVarsR>>

\* the loop over raw_memories: del self.short_term_memory[raw_mem.id], a
\* KeyError when the key has gone since the test
StoreDel(t) ==
    /\ threads[t].pc = "del"
    /\ LET th == threads[t]
       IN  IF th.raw[th.i] \in Ids(short_term_memory)
           THEN /\ short_term_memory' = DelKey(short_term_memory, th.raw[th.i])
                /\ threads' = [threads EXCEPT ![t].i = @ + 1, ![t].pc = "halve"]
           ELSE /\ threads' = [threads EXCEPT ![t] = Raise(@, "KeyError")]
                /\ UNCHANGED short_term_memory
    /\ UNCHANGED <<working_memory, nextId, otherVarsR>>

\* _check_abstraction_opportunities: the comprehension over
\* self.working_memory.values() starts; the iterator notes the dict's size
StoreCount(t) ==
    /\ threads[t].op = "store_raw_memory"
    /\ threads[t].pc = "count"
    /\ threads' = [threads EXCEPT ![t].n = Len(working_memory), ![t].pc = "counted"]
    /\ UNCHANGED <<short_term_memory, working_memory, nextId, otherVarsR>>

\* the comprehension runs to its end: a RuntimeError ("dictionary changed
\* size during iteration") when working memory grew meanwhile, else the
\* level-1 count decides on _abstract_to_belief and the call returns
StoreBelief(t) ==
    /\ threads[t].pc = "counted"
    /\ IF Len(working_memory) # threads[t].n
       THEN /\ threads' = [threads EXCEPT ![t] = Raise(@, "RuntimeError")]
            /\ UNCHANGED <<working_memory, nextId>>
       ELSE \E m \in {abstract_to_belief([st |-> short_term_memory,
                                          wm |-> working_memory,
                                          next |-> nextId, db |-> <<>>], clock)} :
                /\ working_memory' = m.wm
                /\ nextId' = m.next
                /\ threads' = [threads EXCEPT ![t].pc = "done"]
    /\ UNCHANGED <<short_term_memory, otherVarsR>>

NextStoreRace ==
    \E t \in 1..2 :
        \/ StoreInsert(t)
        \/ StoreCheck(t)
        \/ StoreSort(t)
        \/ StorePattern(t)
        \/ StoreHalve(t)
        \/ StoreIn(t)
        \/ StoreDel(t)
        \/ StoreCount(t)
        \/ StoreBelief(t)

SpecStoreRace == InitStoreRace /\ [][NextStoreRace]_vars

-----------------------------------------------------------------------------
(* Claims about concurrent stores *)

\* the patterns of working memory that name the raw entry id as a source
PatternsOver(id) ==
    {k \in 1..Len(working_memory) :
        /\ working_memory[k].abstraction_level = 1
        /\ id \in Range(working_memory[k].sources)}

\* the requests that have halved the importance of the entry id
Halvers(id) == {t \in 1..Len(threads) : id \in Range(threads[t].touched)}

\* C19: when two requests run store_raw_memory at the same time, no raw
\* entry is a source of more than one pattern, no entry has its importance
\* halved by both requests, and neither call ends in an exception
C19_PromotionExclusive ==
    /\ \A id \in 1..(nextId - 1) : Cardinality(PatternsOver(id)) <= 1
    /\ \A id \in 1..(nextId - 1) : Cardinality(Halvers(id)) <= 1
    /\ \A t \in 1..Len(threads) : threads[t].error = ""


-----------------------------------------------------------------------------
(* A merge_brains call beside a terminate_brain or a second merge_brains *)

\* the calls the second request may make: each shares an id with the first
\* request's merge_brains([1, 2], ...)
RacingCalls ==
    {Thread("terminate_brain", <<1>>), Thread("terminate_brain", <<2>>),
     Thread("merge_brains", <<2, 3>>), Thread("merge_brains", <<1, 2>>)}

InitMergeRace ==
    /\ \E bs \in LoadedBrains(LoadedStrengthsB) : InitBrainManager(bs)
    /\ InitMemoryEmpty
    /\ InitEngineEmpty
    /\ reasoning_log = <<>>
    /\ last = NoCall
    /\ \E second \in RacingCalls :
          threads = <<Thread("merge_brains", <<1, 2>>), second>>

otherVarsG == <<memVars, engineVars, reasoning_log, nUpdates, nAnalyses, last>>

\* the id terminate_brain is working on: its argument, or the element of
\* brain_ids the last loop of merge_brains has reached
Target(th) == IF th.op = "merge_brains" THEN th.arg[th.i] ELSE th.arg[1]

\* terminate_brain returns: to the caller of the request, or to the last
\* loop of merge_brains
Return(th) ==
    IF th.op = "merge_brains"
    THEN [th EXCEPT !.i = @ + 1, !.pc = "loop"]
    ELSE [th EXCEPT !.pc = "done"]

\* merge_brains: the length test
MergeStart(t) ==
    /\ threads[t].op = "merge_brains"
    /\ threads[t].pc = "start"
    /\ threads' = [threads EXCEPT ![t] =
                        IF Len(@.arg) < 2 THEN Raise(@, "ValueError")
                        ELSE [@ EXCEPT !.i = 1, !.pc = "sum"]]
    /\ UNCHANGED <<brains, nextId, otherVarsG>>

\* the generator inside sum(...): `for bid in brain_ids if bid in self.brains`
MergeSumIn(t) ==
    /\ threads[t].pc = "sum"
    /\ LET th == threads[t]
       IN  threads' = [threads EXCEPT ![t] =
                IF th.i > Len(th.arg) THEN [th EXCEPT !.pc = "create"]
                ELSE IF th.arg[th.i] \in Ids(brains) THEN [th EXCEPT !.pc = "get"]
                ELSE [th EXCEPT !.i = @ + 1]]
    /\ UNCHANGED <<brains, nextId, otherVarsG>>

\* the generator inside sum(...): self.brains[bid].strength, a KeyError when
\* the key has gone since the test; raw lists the ids that were summed
MergeSumGet(t) ==
    /\ threads[t].pc = "get"
    /\ LET th == threads[t]
       IN  threads' = [threads EXCEPT ![t] =
                IF th.arg[th.i] \in Ids(brains)
                THEN [th EXCEPT !.acc = RAdd(@, Get(brains, th.arg[th.i]).strength),
                                !.raw = Append(@, th.arg[th.i]),
                                !.i = @ + 1, !.pc = "sum"]
                ELSE Raise(th, "KeyError")]
    /\ UNCHANGED <<brains, nextId, otherVarsG>>

\* merged_strength = sum / len(brain_ids); merged_brain = self.create_brain(...)
MergeCreate(t) ==
    /\ threads[t].pc = "create"
    /\ brains' = create_brain(brains, nextId, "merged").brains
    /\ nextId' = nextId + 1
    /\ threads' = [threads EXCEPT
                        ![t].acc = RDiv(@, RInt(Len(threads[t].arg))),
                        ![t].new = nextId, ![t].pc = "set"]
    /\ UNCHANGED otherVarsG

\* merged_brain.strength = min(1.0, merged_strength * 1.2), on the object
\* create_brain returned
MergeSet(t) ==
    /\ threads[t].pc = "set"
    /\ brains' = [k \in 1..Len(brains) |->
                    IF brains[k].id = threads[t].new
                    THEN [brains[k] EXCEPT !.strength =
                            RMin(RInt(1), RMul(threads[t].acc, <<6, 5>>))]
                    ELSE brains[k]]
    /\ threads' = [threads EXCEPT ![t].i = 1, ![t].pc = "loop"]
    /\ UNCHANGED <<nextId, otherVarsG>>

\* the last loop of merge_brains: `for bid in brain_ids: if bid in
\* self.brains: self.terminate_brain(bid, ...)`, then return merged_brain
MergeLoop(t) ==
    /\ threads[t].pc = "loop"
    /\ LET th == threads[t]
       IN  threads' = [threads EXCEPT ![t] =
                IF th.i > Len(th.arg) THEN [th EXCEPT !.pc = "done"]
                ELSE IF th.arg[th.i] \in Ids(brains) THEN [th EXCEPT !.pc = "terminate"]
                ELSE [th EXCEPT !.i = @ + 1]]
    /\ UNCHANGED <<brains, nextId, otherVarsG>>

\* where terminate_brain is entered: at the start of a terminate_brain
\* request, from the last loop of a merge_brains request
EntryPc(th) == IF th.op = "terminate_brain" THEN "start" ELSE "terminate"

\* terminate_brain: `if brain_id in self.brains`
TerminateIn(t) ==
    /\ threads[t].pc = EntryPc(threads[t])
    /\ threads' = [threads EXCEPT ![t] =
                        IF Target(@) \in Ids(brains) THEN [@ EXCEPT !.pc = "active"]
                        ELSE Return(@)]
    /\ UNCHANGED <<brains, nextId, otherVarsG>>

\* terminate_brain: self.brains[brain_id].active = False, a KeyError when
\* the key has gone since the test; then the update of the database row
TerminateActive(t) ==
    /\ threads[t].pc = "active"
    /\ LET id == Target(threads[t])
       IN  IF id \in Ids(brains)
           THEN /\ brains' = [k \in 1..Len(brains) |->
                                IF brains[k].id = id
                                THEN [brains[k] EXCEPT !.active = FALSE]
                                ELSE brains[k]]
                /\ threads' = [threads EXCEPT ![t].pc = "del"]
           ELSE /\ threads' = [threads EXCEPT ![t] = Raise(@, "KeyError")]
                /\ UNCHANGED brains
    /\ UNCHANGED <<nextId, otherVarsG>>

\* terminate_brain: del self.brains[brain_id], a KeyError when the key has
\* gone since the test; touched lists the ids this call has deleted
TerminateDel(t) ==
    /\ threads[t].pc = "del"
    /\ LET id == Target(threads[t])
       IN  IF id \in Ids(brains)
           THEN /\ brains' = DelKey(brains, id)
                /\ threads' = [threads EXCEPT
                                    ![t] = Return([@ EXCEPT !.touched = Append(@, id)])]
           ELSE /\ threads' = [threads EXCEPT ![t] = Raise(@, "KeyError")]
                /\ UNCHANGED brains
    /\ UNCHANGED <<nextId, otherVarsG>>

NextMergeRace ==
    \E t \in 1..2 :
        \/ MergeStart(t)
        \/ MergeSumIn(t)
        \/ MergeSumGet(t)
        \/ MergeCreate(t)
        \/ MergeSet(t)
        \/ MergeLoop(t)
        \/ TerminateIn(t)
        \/ TerminateActive(t)
        \/ TerminateDel(t)

SpecMergeRace == InitMergeRace /\ [][NextMergeRace]_vars

-----------------------------------------------------------------------------
(* Claims about concurrent merges *)

\* the requests that have deleted the brain id from the dict
Removers(id) == {t \in 1..Len(threads) : id \in Range(threads[t].touched)}

\* C20: when merge_brains runs beside a terminate_brain or a second
\* merge_brains on an overlapping id, neither call ends in an exception,
\* no brain is deleted by both, once both calls are over every id they
\* named is out of the dict, and a finished merge has summed the strengths
\* of exactly the brains it removed itself
C20_MergeRaceTolerated ==
    /\ \A t \in 1..Len(threads) : threads[t].error = ""
    /\ \A id \in 1..(nextId - 1) : Cardinality(Removers(id)) <= 1
    /\ (\A t \in 1..Len(threads) : Finished(threads[t]))
          => \A t \in 1..Len(threads) :
                \A id \in Range(threads[t].arg) : id \notin Ids(brains)
    /\ \A t \in 1..Len(threads) :
          (threads[t].op = "merge_brains" /\ threads[t].pc = "done")
             => Range(threads[t].raw) = Range(threads[t].touched)


-----------------------------------------------------------------------------
(* Two requests in test_theories_against_interaction *)

InitEvolveRace ==
    /\ brains = <<>>
    /\ nextId = Len(PersistTheoryRows) + 1
    /\ nUpdates = 0
    /\ nAnalyses = 0
    /\ InitMemoryEmpty
    /\ theories = LoadedTheories(PersistTheoryRows)
    /\ prediction_history = 0
    /\ reasoning_log = <<>>
    /\ last = NoCall
    /\ threads = <<Thread("test_theories_against_interaction", <<>>),
                   Thread("test_theories_against_interaction", <<>>)>>

otherVarsV == <<brainVars, memVars, prediction_history, reasoning_log, last>>

\* the keys a dict iterator has still to yield: a dict keeps insertion order
\* and the ids grow with insertion, so they are the keys after the last one
\* yielded
Ahead(th) == {id \in Ids(theories) : id > th.i}

\* the key the iterator yields next
NextKey(th) == CHOOSE id \in Ahead(th) : \A other \in Ahead(th) : id <= other

\* next() on a dict iterator fails when the dict's size is not the size it
\* had when the iterator was made
Disturbed(th) == Len(theories) # th.n

\* what next() may do when the size is unchanged: with the keys changed (one
\* deleted, one inserted) the interpreter may or may not notice ("dictionary
\* keys changed during iteration")
Notices(th) == IF Ids(theories) # th.keys THEN BOOLEAN ELSE {FALSE}

\* test_theories_against_interaction: `for theory in self.theories.values()`
\* makes the iterator
TestStart(t) ==
    /\ threads[t].op = "test_theories_against_interaction"
    /\ threads[t].pc = "start"
    /\ threads' = [threads EXCEPT ![t].n = Len(theories), ![t].i = 0,
                                  ![t].keys = Ids(theories),
                                  ![t].seen = Ids(theories), ![t].pc = "test"]
    /\ UNCHANGED <<theories, nextId, otherVarsV>>

\* one pass of the loop: the next theory is tested against what
\* _evaluate_theory_fit returns, and its result appended (raw lists the ids
\* of the results)
TestNext(t) ==
    /\ threads[t].pc = "test"
    /\ \E th \in {threads[t]}, noticed \in Notices(threads[t]) :
           IF Disturbed(th) \/ noticed
           THEN /\ threads' = [threads EXCEPT ![t] = Raise(@, "RuntimeError")]
                /\ UNCHANGED theories
           ELSE IF Ahead(th) = {}
           THEN /\ threads' = [threads EXCEPT ![t].pc = "evolve"]
                /\ UNCHANGED theories
           ELSE \E actual \in BOOLEAN :
                    /\ theories' = [k \in 1..Len(theories) |->
                                       IF theories[k].id = NextKey(th)
                                       THEN TestOne(theories[k], actual).theory
                                       ELSE theories[k]]
                    /\ threads' = [threads EXCEPT ![t].i = NextKey(th),
                                                  ![t].raw = Append(@, NextKey(th))]
    /\ UNCHANGED <<nextId, otherVarsV>>

\* _evolve_theories: `for theory_id, theory in self.theories.items()` makes
\* the iterator
EvolveStart(t) ==
    /\ threads[t].pc = "evolve"
    /\ threads' = [threads EXCEPT ![t].n = Len(theories), ![t].i = 0,
                                  ![t].keys = Ids(theories), ![t].pc = "prune"]
    /\ UNCHANGED <<theories, nextId, otherVarsV>>

\* one pass of the first loop of _evolve_theories: a weak theory is noted in
\* to_remove and its row deactivated
EvolvePrune(t) ==
    /\ threads[t].pc = "prune"
    /\ \E th \in {threads[t]}, noticed \in Notices(threads[t]) :
           threads' = [threads EXCEPT ![t] =
                IF Disturbed(th) \/ noticed THEN Raise(th, "RuntimeError")
                ELSE IF Ahead(th) = {} THEN [th EXCEPT !.i = 1, !.pc = "remove"]
                ELSE LET theory == Get(theories, NextKey(th))
                     IN  [th EXCEPT
                            !.i = NextKey(th),
                            !.to_remove =
                                IF /\ theory.tests_performed > PruneMinTests
                                   /\ RLt(theory.strength, <<1, 5>>)
                                THEN Append(@, NextKey(th)) ELSE @]]
    /\ UNCHANGED <<theories, nextId, otherVarsV>>

\* the second loop of _evolve_theories: del self.theories[theory_id], a
\* KeyError when the key has gone; touched lists the ids this call deleted
EvolveRemove(t) ==
    /\ threads[t].pc = "remove"
    /\ LET th == threads[t]
       IN  IF th.i > Len(th.to_remove)
           THEN /\ threads' = [threads EXCEPT ![t].pc = "strong"]
                /\ UNCHANGED theories
           ELSE IF th.to_remove[th.i] \in Ids(theories)
           THEN /\ theories' = DelKey(theories, th.to_remove[th.i])
                /\ threads' = [threads EXCEPT ![t].i = @ + 1,
                                    ![t].touched = Append(@, th.to_remove[th.i])]
           ELSE /\ threads' = [threads EXCEPT ![t] = Raise(@, "KeyError")]
                /\ UNCHANGED theories
    /\ UNCHANGED <<nextId, otherVarsV>>

\* the rest of _evolve_theories: strong_theories is collected and, when it
\* holds two theories, the first two are merged and the merged theory put
\* into the dict; then test_theories_against_interaction returns
EvolveMerge(t) ==
    /\ threads[t].pc = "strong"
    /\ \E e \in {evolve_theories([ts |-> theories, next |-> nextId, db |-> <<>>])} :
          /\ theories' = e.ts
          /\ nextId' = e.next
          /\ threads' = [threads EXCEPT
                            ![t].new = IF e.next > nextId THEN nextId ELSE 0,
                            ![t].pc = "done"]
    /\ UNCHANGED otherVarsV

NextEvolveRace ==
    \E t \in 1..2 :
        \/ TestStart(t)
        \/ TestNext(t)
        \/ EvolveStart(t)
        \/ EvolvePrune(t)
        \/ EvolveRemove(t)
        \/ EvolveMerge(t)

SpecEvolveRace == InitEvolveRace /\ [][NextEvolveRace]_vars

-----------------------------------------------------------------------------
(* Claims about concurrent tests *)

\* C21: when two requests run test_theories_against_interaction at the same
\* time, neither ends in an exception, no theory is deleted by both, and a
\* request that is past its test loop has tested each theory that was live
\* when its loop began exactly once and no other theory
C21_EvolveCriticalSection ==
    /\ \A t \in 1..Len(threads) : threads[t].error = ""
    /\ \A id \in 1..(nextId - 1) : Cardinality(Removers(id)) <= 1
    /\ \A t \in 1..Len(threads) :
          threads[t].pc \in {"evolve", "prune", "remove", "strong", "done"}
             => /\ IsDistinct(threads[t].raw)
                /\ Range(threads[t].raw) = threads[t].seen

====
